---- MODULE Spec2Model ----
(***************************************************************************)
(* Verification model of kraken-dlt-source (Kraken Futures -> dlt).        *)
(*                                                                         *)
(*   SpecAuth    KrakenFuturesAuth: the nonce counter under its lock       *)
(*   SpecClient  KrakenFuturesClient.get: signing, retry loop, payload     *)
(*               error interpretation                                      *)
(*   Spec        the incremental extractors executions, position_history   *)
(*               and account_log driving their pagination loops over a     *)
(*               persisted cursor state                                    *)
(***************************************************************************)
EXTENDS Integers, Sequences, FiniteSets, TLC

(***************************************************************************)
(* Bounds of the model                                                     *)
(***************************************************************************)
MaxClock == 1
NumThreads == 2
MaxRetries == 2
PageSize == 2
MaxRequests == 4
MaxRuns == 2
\* millisecond values 0..MaxMs are converted
MaxMs == 1100
\* long arithmetic on significands: digits per step, steps of a division
ChunkBits == 10
DivChunkCount == 9
\* the longest path, in pieces
MaxPieces == 3
\* the low digits of the ints handed to coerce_timestamp_ms are 0..MaxLow
MaxLow == 3
\* the values of a record's fields are 1..MaxValues
MaxValues == 2

(***************************************************************************)
(* Program constants                                                       *)
(***************************************************************************)
NONCE_SUFFIX_PAD == 5
NONCE_MAX == 10 ^ NONCE_SUFFIX_PAD
max_before_history == 3
DEFAULT_MAX_RETRIES == 3
\* significand of Python's float (IEEE 754 double)
MantissaBits == 53

VARIABLES
    \* ---- KrakenFuturesAuth ----
    clock,          \* int(time.time() * 1000) as the next reader will see it
    counter,        \* self._counter
    lock,           \* self._lock: 0 when free, else the thread holding it
    prevNonce,      \* the nonce returned by the call before the last one (-1: none)
    lastNonce,      \* the nonce returned by the last call (-1: none)
    credentials,    \* the arguments of KrakenFuturesAuth(api_key, api_secret)
    signer,         \* the Signer object: whether it exists, and its api_key
    \* ---- KrakenFuturesClient.get ----
    cfg,            \* the client's fields and the arguments of this get
    cpc,            \* position of the get: "call", "attempt", "done"
    attempt,        \* loop variable of the retry loop
    requestsSent,   \* number of session.get calls made by this get
    sleeps,         \* number of backoff sleeps (time.sleep(delay))
    throttles,      \* number of min_request_interval sleeps
    kinds,          \* the kinds of the responses received so far, in order
    lastResp,       \* the response of the latest attempt
    headers,        \* the headers the attempts carry
    outcome,        \* how the get ended
    raised,         \* the texts in the message of the exception get raised
    result,         \* the payload the get returned
    \* ---- resource extractors ----
    resource,       \* which resource runs
    auth,           \* the auth argument of the resource: FALSE for None
    start_timestamp,\* the caller's start_timestamp, coerced (0: not given)
    state,          \* dlt.current.resource_state(): the persisted cursor state
    loc,            \* the local variables of the running generator
    hist,           \* history of the run: requests issued, records yielded
    \* ---- the query string of one request ----
    params,         \* the params mapping given to get and to the Signer
    query_string,   \* the query string get puts in the URL
    payload,        \* the canonical query the Signer hashes
    qpc,            \* which of the two has been computed
    \* ---- one element of a position_history page ----
    element,        \* the element as the exchange returned it
    record,         \* what the loop body made of it
    \* ---- timestamp conversions (helpers.py) ----
    input_ms,       \* a millisecond epoch value
    raw,            \* the value handed to coerce_timestamp_ms
    coerced,        \* what coerce_timestamp_ms returned
    \* ---- the path of one request (client.get) ----
    path,           \* the path argument of get, in pieces
    target,         \* the path handed to the Signer and the path in the URL
    \* ---- extract_timestamp (helpers.py) ----
    doc,            \* the record extract_timestamp looks into
    fields,         \* the field paths to try, in order
    extracted,      \* what extract_timestamp returned or raised
    \* ---- enrich_record (helpers.py) ----
    original,       \* the mapping passed to enrich_record, as it is now
    enrich_ms,      \* the timestamp_ms argument
    enriched        \* the record enrich_record returned

authVars == <<clock, counter, lock, prevNonce, lastNonce, credentials, signer>>
clientVars == <<cfg, cpc, attempt, requestsSent, sleeps, throttles, kinds,
                lastResp, headers, outcome, raised, result>>
extVars == <<resource, auth, start_timestamp, state, loc, hist>>
queryVars == <<params, query_string, payload, qpc>>
normVars == <<element, record>>
timeVars == <<input_ms, raw, coerced>>
pathVars == <<path, target>>
extractVars == <<doc, fields, extracted>>
enrichVars == <<original, enrich_ms, enriched>>
vars == <<authVars, clientVars, extVars, queryVars, normVars, timeVars, pathVars, extractVars, enrichVars>>

(***************************************************************************)
(* KrakenFuturesAuth                                                       *)
(***************************************************************************)
Threads == 1..NumThreads

\* self._counter = (self._counter + 1) % NONCE_MAX
NextCounter(c) == (c + 1) % NONCE_MAX

\* f"{now_ms}{self._counter:0{NONCE_SUFFIX_PAD}d}" read as an integer: the
\* counter is below NONCE_MAX, so it fills exactly the NONCE_SUFFIX_PAD low digits
NonceOf(now_ms, c) == now_ms * NONCE_MAX + c

\* __init__ sets the counter to 0; a Signer that has already served
\* NONCE_MAX - 2 calls holds NONCE_MAX - 2 (one Signer lives for the whole run)
SignerCounters == {0, NONCE_MAX - 2}

\* the credentials a caller may pass: api_key and api_secret, each possibly
\* empty; "c2VjcmV0" is base64, "a" is not
Credentials == [api_key : {"", "key"}, api_secret : {"", "c2VjcmV0", "a"}]

GoodCredentials == [api_key |-> "key", api_secret |-> "c2VjcmV0"]

\* no Signer: the constructor has not run, or it raised
NoSigner == [status |-> "none", api_key |-> "", raised |-> ""]

\* a constructed Signer (self.api_key; the decoded secret is not modelled)
BuiltSigner(c) == [status |-> "built", api_key |-> c.api_key, raised |-> ""]

C27_SecretNotChecked(c) ==
    IF c.api_key = "" THEN "api_key must be provided" ELSE ""

\* what __init__ raises, "" if nothing: the two ValueErrors, or the
\* binascii.Error of base64.b64decode
CtorError(c) ==
    IF c.api_key = "" THEN "api_key must be provided"
    ELSE IF c.api_secret = "" THEN "api_secret must be provided"
    ELSE IF c.api_secret = "a" THEN "binascii.Error"
    ELSE ""

\* KrakenFuturesAuth(api_key, api_secret)
Construct ==
    /\ signer.status = "none"
    /\ IF CtorError(credentials) # ""
       THEN /\ signer' = [NoSigner EXCEPT !.status = "failed",
                                          !.raised = CtorError(credentials)]
            /\ counter' = counter
       ELSE /\ signer' = BuiltSigner(credentials)
            /\ counter' = 0
    /\ UNCHANGED <<clock, lock, prevNonce, lastNonce, credentials, clientVars, extVars, queryVars, normVars, timeVars, pathVars, extractVars, enrichVars>>

\* the wall clock moves on by a millisecond
Tick ==
    /\ clock < MaxClock
    /\ clock' = clock + 1
    /\ UNCHANGED <<counter, lock, prevNonce, lastNonce, credentials, signer, clientVars, extVars, queryVars, normVars, timeVars, pathVars, extractVars, enrichVars>>

\* a thread calls the Signer and enters "with self._lock"
Acquire(t) ==
    /\ signer.status = "built"
    /\ lock = 0
    /\ lock' = t
    /\ UNCHANGED <<clock, counter, prevNonce, lastNonce, credentials, signer, clientVars, extVars, queryVars, normVars, timeVars, pathVars, extractVars, enrichVars>>

\* the body of _next_nonce, then the lock is released
NextNonce(t) ==
    /\ lock = t
    /\ counter' = NextCounter(counter)
    /\ lastNonce' = NonceOf(clock, counter')
    /\ prevNonce' = lastNonce
    /\ lock' = 0
    /\ UNCHANGED <<clock, credentials, signer, clientVars, extVars, queryVars, normVars, timeVars, pathVars, extractVars, enrichVars>>

(***************************************************************************)
(* KrakenFuturesClient.get                                                 *)
(***************************************************************************)
\* JSON payloads, by the fields get looks at
ResultValues == {"absent", "success", "error", "ERROR"}
SuccessValues == {"absent", "true", "false", "zero"}
ErrorValues == {"absent", "invalid", "permission_denied", "Permission Denied"}
RestValues == {"plain", "insufficient permission"}

Payloads == [result : ResultValues, success : SuccessValues,
             error : ErrorValues, rest : RestValues]

EmptyPayload == [result |-> "absent", success |-> "absent",
                 error |-> "absent", rest |-> "plain"]

\* what one session.get can bring
FailureKinds == {"http429", "http5xx", "http4xx", "transport", "badjson", "null"}

Responses ==
    [kind : FailureKinds \cup {"nonmapping"}, payload : {EmptyPayload}]
        \cup [kind : {"json"}, payload : Payloads]

NoResponse == [kind |-> "none", payload |-> EmptyPayload]

C9_NoLowercasing(s) == s

\* str.lower() on the strings of the model
Lower(s) ==
    CASE s = "ERROR" -> "error"
      [] s = "Permission Denied" -> "permission denied"
      [] OTHER -> s

\* "permission" in s
ContainsPermission(s) ==
    s \in {"permission_denied", "permission denied", "insufficient permission",
           "Permission Denied"} /\ s # "Permission Denied"

\* the texts str(payload) shows: the values of the fields that are present
PayloadTexts(p) == {p.result, p.success, p.error, p.rest} \ {"absent"}

\* _raise_if_error: the texts in the RuntimeError message, {} when none is raised
\*   result == "error":  error = payload.get("error") or payload
\*   success is False:   the whole payload
ApiErrorParts(p) ==
    IF Lower(p.result) = "error"
    THEN IF p.error # "absent" THEN {p.error} ELSE PayloadTexts(p)
    ELSE IF p.success = "false" THEN PayloadTexts(p) ELSE {}

\* the payload carries an exchange error marker
IsApiError(p) == Lower(p.result) = "error" \/ p.success = "false"

\* message = str(err).lower(); "permission" in message
IsPermissionDenied(p) ==
    /\ IsApiError(p)
    /\ \E s \in ApiErrorParts(p) : ContainsPermission(Lower(s))

C17_RetriesApiErrors(r) ==
    r.kind \in FailureKinds \/ (r.kind = "json" /\ IsApiError(r.payload))

C18_KeepsPollingAfterSuccess(r) ==
    r.kind \in FailureKinds \/ (r.kind = "json" /\ ~IsApiError(r.payload))

\* the exceptions the except clause of the retry loop catches
IsTransient(r) == r.kind \in FailureKinds

C8_GivesUpOneEarly(a, max_retries) == a < max_retries - 1

\* if attempt >= self.max_retries: break
RetryAllowed(a, max_retries) == a < max_retries

C10_CheckForgotten(c) == FALSE

\* if private: if not self.auth: raise ValueError(...)
MissingAuth(c) == c.private /\ ~c.hasAuth

C33_SleepSkipped(c) == 0

\* if self.min_request_interval > 0: time.sleep(self.min_request_interval)
ThrottleSleeps(c) == IF c.throttle THEN 1 ELSE 0

NoHeaders == [signed |-> FALSE, nonce |-> -1]

Configs == [hasAuth : BOOLEAN, private : BOOLEAN,
            max_retries : 0..MaxRetries, throttle : BOOLEAN]

NoConfig == [hasAuth |-> FALSE, private |-> FALSE, max_retries |-> 0,
             throttle |-> FALSE]

\* get up to the retry loop: the configuration check and the signing
GetStart ==
    /\ cpc = "call"
    /\ IF MissingAuth(cfg)
       THEN /\ cpc' = "done"
            /\ outcome' = "config_error"
            /\ raised' = {"Private endpoints require KrakenFuturesAuth"}
            /\ UNCHANGED <<headers, counter, prevNonce, lastNonce>>
       ELSE /\ cpc' = "attempt"
            /\ outcome' = outcome
            /\ raised' = raised
            /\ IF cfg.private
               THEN /\ counter' = NextCounter(counter)
                    /\ lastNonce' = NonceOf(clock, counter')
                    /\ prevNonce' = lastNonce
                    /\ headers' = [signed |-> TRUE, nonce |-> lastNonce']
               ELSE UNCHANGED <<headers, counter, prevNonce, lastNonce>>
    /\ UNCHANGED <<clock, lock, credentials, signer, cfg, attempt, requestsSent, sleeps, throttles,
                   kinds, lastResp, result, extVars, queryVars, normVars, timeVars, pathVars, extractVars, enrichVars>>

C40_FreshNonceOnRetry(h, a) ==
    IF a > 0 /\ h.signed THEN [h EXCEPT !.nonce = @ + 1] ELSE h

\* session.get(url, headers=headers, timeout=self.timeout): each pass sends
\* the dict built before the loop
AttemptHeaders(h, a) == h

\* one pass of the retry loop, with the response r of session.get
Attempt(r) ==
    /\ cpc = "attempt"
    /\ requestsSent' = requestsSent + 1
    /\ lastResp' = r
    /\ kinds' = Append(kinds, r.kind)
    /\ IF IsTransient(r)
       THEN /\ IF RetryAllowed(attempt, cfg.max_retries)
               THEN /\ sleeps' = sleeps + 1
                    /\ attempt' = attempt + 1
                    /\ UNCHANGED <<cpc, outcome, raised>>
               ELSE \* raise RuntimeError(f"Failed to fetch {path}: {last_error}")
                    /\ cpc' = "done"
                    /\ outcome' = "fetch_error"
                    /\ raised' = {"Failed to fetch", r.kind}
                    /\ UNCHANGED <<sleeps, attempt>>
            /\ UNCHANGED <<throttles, result>>
       ELSE /\ cpc' = "done"
            /\ UNCHANGED <<sleeps, attempt>>
            /\ IF r.kind = "nonmapping"
               THEN /\ outcome' = "attribute_error"
                    /\ raised' = {"AttributeError"}
                    /\ UNCHANGED <<throttles, result>>
               ELSE IF IsPermissionDenied(r.payload)
               THEN /\ outcome' = "returned"
                    /\ result' = EmptyPayload
                    /\ UNCHANGED <<throttles, raised>>
               ELSE IF IsApiError(r.payload)
               THEN /\ outcome' = "api_error"
                    /\ raised' = {"Kraken Futures API error"}
                                      \cup ApiErrorParts(r.payload)
                    /\ UNCHANGED <<throttles, result>>
               ELSE /\ outcome' = "returned"
                    /\ result' = r.payload
                    /\ throttles' = throttles + ThrottleSleeps(cfg)
                    /\ UNCHANGED raised
    /\ headers' = AttemptHeaders(headers, attempt)
    /\ UNCHANGED <<authVars, cfg, extVars, queryVars, normVars, timeVars, pathVars, extractVars, enrichVars>>

(***************************************************************************)
(* Resource extractors: executions, position_history, account_log          *)
(*                                                                         *)
(* None is written 0 for timestamps (the exchange's timestamps are         *)
(* millisecond epochs, never 0) and "" for continuation tokens.  The       *)
(* timestamps of the model stand for epoch milliseconds above 10^12, which *)
(* coerce_timestamp_ms returns unchanged.                                  *)
(***************************************************************************)
Resources ==
    {"executions", "position_history", "account_log", "open_positions", "tickers"}

\* the resources that start with "if not auth: raise ValueError(...)"
AuthRequired == {"account_log", "position_history", "open_positions"}

\* the incremental resources, which keep a cursor in the resource state
Incremental == {"executions", "position_history", "account_log"}

\* the records the exchange holds: booking_uid / uid and timestamp (0: the
\* record carries no usable timestamp)
Ledger ==
    { [uid |-> "A", ts |-> 2], [uid |-> "B", ts |-> 2], [uid |-> "C", ts |-> 2],
      [uid |-> "D", ts |-> 1], [uid |-> "N", ts |-> 0] }

Tokens == {"t1"}

\* the caller's start_timestamp, after coerce_timestamp_ms (0: not given)
StartChoices == {0, 1, 2}

\* values of the persisted mapping: an absent key, None, an int, a str of an int
Absent == [t |-> "absent", v |-> 0]
NoneV == [t |-> "none", v |-> 0]
IntV(n) == [t |-> "int", v |-> n]
StrV(n) == [t |-> "str", v |-> n]

\* truth value of x for "if x:" (state.get gives None for an absent key)
Truthy(x) == x.t = "str" \/ (x.t = "int" /\ x.v # 0)

\* int(x) of a stored number, and 0 for None
NumOf(x) == IF x.t \in {"int", "str"} THEN x.v ELSE 0

\* a stored continuation token as state.get returns it
TokOf(ct) == IF ct \in {"absent", "none"} THEN "" ELSE ct

\* the persisted cursor state of a resource that never ran
EmptyState ==
    [last_timestamp |-> Absent, continuation_token |-> "absent",
     before |-> Absent, boundary_booking_uids |-> {}]

C37_StartWins(start, st) ==
    IF start # 0 THEN start
    ELSE IF Truthy(st.last_timestamp) THEN NumOf(st.last_timestamp) ELSE 0

\* initial_since(start_timestamp, state)
initial_since(start, st) ==
    IF Truthy(st.last_timestamp) THEN NumOf(st.last_timestamp) ELSE start

Min(S) == CHOOSE x \in S : \A y \in S : x <= y
Max(S) == CHOOSE x \in S : \A y \in S : x >= y

C16_LatestOfPage(timestamps) ==
    IF timestamps = {} THEN 0
    ELSE CHOOSE x \in {r.ts : r \in timestamps} :
            \A y \in {r.ts : r \in timestamps} : x >= y

\* min(ts for ts, _ in timestamps), 0 when nothing of the page was yielded
Earliest(timestamps) ==
    IF timestamps = {} THEN 0 ELSE Min({r.ts : r \in timestamps})

C22_NeverSkips(r) == FALSE

\* timestamp_ms = extract_timestamp(...); if timestamp_ms is None: continue
NoTimestamp(r) == r.ts = 0

\* if not max_timestamp_seen or timestamp_ms > max_timestamp_seen: ...
UpdateMax(max_seen, ts) == IF max_seen = 0 \/ ts > max_seen THEN ts ELSE max_seen

C3_WatermarkBeforeYield(st, max_seen) ==
    [st EXCEPT !.last_timestamp = StrV(max_seen)]

\* the loop body up to "yield record" assigns nothing to state
StateAtYield(st, max_seen) == st

\* state["last_timestamp"] = str(max_timestamp_seen)
WatermarkOf(max_seen) == StrV(max_seen)

\* the generator before its first next(): nothing is bound yet
NoLocals ==
    [pc |-> "seed", since |-> 0, token |-> "", before |-> NoneV, max_seen |-> 0,
     emitted |-> 0, isv |-> 0, lbt |-> 0, boundary |-> {}, seen |-> <<>>,
     nlogs |-> 0, timestamps |-> {}, served |-> {}, why |-> ""]

NoRequest == [since |-> 0, before |-> 0, token |-> "", count |-> 0]

\* run: runs started; total: client.get calls of all runs; nreq, nresp: the
\* client.get calls and the pages received in this run; sent: the calls of
\* this run that reached the network; req: the parameters of the latest request; lastTok,
\* lastHadRecords: the latest response; yielded: records yielded in this run;
\* owed: the records the stopped previous run had still to reach; honest: every
\* response so far is one an exchange honouring since / before may give;
\* seed: the persisted state this run was seeded from; streak: consecutive
\* fallback requests with the same "before"; resolved: earliest timestamps of
\* the consecutive fallback pages; atRequest: the persisted state when the
\* latest request went out; prevBoundary: the records yielded at the earliest
\* timestamp of the previous page, when the run fell back to "before" after it;
\* signed: the calls of this run for which the client invoked the Signer; rows:
\* the records a snapshot resource yielded, each with its raw_data; repeated:
\* account_log yielded some record more than once in this run
NoHistory ==
    [run |-> 0, total |-> 0, nreq |-> 0, nresp |-> 0, sent |-> 0,
     req |-> NoRequest,
     lastTok |-> "", lastHadRecords |-> FALSE, yielded |-> {}, owed |-> {},
     honest |-> TRUE, seed |-> EmptyState, prevEnd |-> "",
     streak |-> 0, resolved |-> <<>>, atRequest |-> EmptyState,
     prevBoundary |-> {}, signed |-> 0, rows |-> {}, repeated |-> FALSE]

\* prepare_params(base_params, since, token): "since" and "continuation_token"
\* are added when truthy (0 and "" stand for an absent parameter)
prepare_params(base, since, token) ==
    [base EXCEPT !.since = since, !.token = token]

\* the records a run stopped between two fallback pages had still to reach:
\* older than the persisted "before" boundary, newer than its since, not yielded
Owed(st, l, yielded) ==
    IF l.pc = "stopped" /\ l.why = "between_pages" /\ Truthy(st.before)
    THEN {r \in Ledger : /\ r.ts # 0
                         /\ r.ts < NumOf(st.before)
                         /\ r.ts > l.since
                         /\ r \notin yielded}
    ELSE {}

C12_AuthNeverChecked(res, a) == FALSE

\* if not auth: raise ValueError("... resource requires authentication")
AuthRejected(res, a) == res \in AuthRequired /\ ~a

\* client = client or KrakenFuturesClient(auth=auth): the default client, and
\* the arguments of the resources' client.get(..., private=True)
DefaultClient(a) ==
    [hasAuth |-> a, private |-> TRUE, max_retries |-> DEFAULT_MAX_RETRIES,
     throttle |-> TRUE]

C26_TickersCalledPrivate ==
    [hasAuth |-> FALSE, private |-> TRUE, max_retries |-> DEFAULT_MAX_RETRIES,
     throttle |-> TRUE]

\* client = client or KrakenFuturesClient(), and the arguments of tickers'
\* client.get("/derivatives/api/v3/tickers", params=None, private=False)
TickersClient ==
    [hasAuth |-> FALSE, private |-> FALSE, max_retries |-> DEFAULT_MAX_RETRIES,
     throttle |-> TRUE]

\* if private: ...; headers.update(self.auth(auth_path, params))
SignerCalls(c) == IF c.private /\ c.hasAuth THEN 1 ELSE 0

\* the resource raises at its first line: nothing was read, written or called
AuthFail ==
    /\ loc.pc \in {"seed", "done", "stopped", "failed"}
    /\ hist.run < MaxRuns
    /\ AuthRejected(resource, auth)
    /\ loc' = [NoLocals EXCEPT !.pc = "failed", !.why = "auth_required"]
    /\ hist' = [NoHistory EXCEPT !.run = hist.run + 1, !.total = hist.total,
                                 !.honest = hist.honest, !.seed = state,
                                 !.prevEnd = loc.pc]
    /\ UNCHANGED <<resource, auth, start_timestamp, state, authVars, clientVars, queryVars, normVars, timeVars, pathVars, extractVars, enrichVars>>

\* ---- seeding (the code before "while True") ----
\* executions.py 65-73, position_history.py 55-66, account_log.py 72-105
\* the locals of the generator when it enters "while True"
SeedLocals(res, start, st) ==
    LET isAL == res = "account_log"
        since == initial_since(start, st)
        token == TokOf(st.continuation_token)
        before == IF isAL THEN st.before ELSE NoneV
        resumed == st.last_timestamp.t \notin {"absent", "none"}
        isv == IF isAL /\ resumed /\ since # 0 /\ token = "" THEN since ELSE 0
        lbt == IF Truthy(before) THEN NumOf(before) ELSE 0
    IN [NoLocals EXCEPT
          !.pc = "request", !.since = since, !.token = token,
          !.before = before, !.max_seen = since, !.isv = isv,
          !.lbt = lbt,
          !.boundary = IF lbt = 0 THEN {} ELSE st.boundary_booking_uids]

\* account_log.py 99-101: without a persisted "before" the persisted
\* boundary_booking_uids is emptied
SeedState(res, st) ==
    LET lbt == IF Truthy(st.before) THEN NumOf(st.before) ELSE 0
    IN IF res = "account_log" /\ lbt = 0
       THEN [st EXCEPT !.boundary_booking_uids = {}]
       ELSE st

Seed ==
    /\ resource \in Incremental
    /\ loc.pc \in {"seed", "done", "stopped", "failed"}
    /\ hist.run < MaxRuns
    /\ ~AuthRejected(resource, auth)
    /\ state' = SeedState(resource, state)
    /\ loc' = SeedLocals(resource, start_timestamp, state)
    /\ hist' = [NoHistory EXCEPT
                  !.run = hist.run + 1,
                  !.total = hist.total,
                  !.owed = Owed(state, loc, hist.yielded),
                  !.honest = hist.honest,
                  !.seed = state,
                  !.prevEnd = loc.pc]
    /\ UNCHANGED <<resource, auth, start_timestamp, authVars, clientVars, queryVars, normVars, timeVars, pathVars, extractVars, enrichVars>>

\* the consumer stops pulling, or the process dies: the run ends where it is
Stop ==
    /\ loc.pc \in {"request", "page"}
    /\ loc' = [loc EXCEPT !.pc = "stopped",
                          !.why = IF loc.pc = "request" THEN "between_pages"
                                  ELSE "mid_page"]
    /\ UNCHANGED <<resource, auth, start_timestamp, state, hist, authVars, clientVars, queryVars, normVars, timeVars, pathVars, extractVars, enrichVars>>

C24_WatermarkAlwaysWritten(since, old) == IntV(since)

\* if since: state["last_timestamp"] = since   (the empty-response branch)
EmptyPageWatermark(since, old) == IF since # 0 THEN IntV(since) ELSE old

C23_ClearsTokenOnError(st) == [st EXCEPT !.continuation_token = "none"]

\* client.get raised (KrakenFuturesAPIError, RuntimeError): no resource has a
\* try / except, the exception leaves the generator and the state is as it was
StateOnError(st) == st

\* ---- executions and position_history: continuation token only ----
\* params = prepare_params({"count": page_size}, since, token); client.get(...)
TokenRequest(res) ==
    /\ resource = res
    /\ loc.pc = "request"
    /\ hist.total < MaxRequests
    /\ \E raises \in BOOLEAN :
          /\ loc' = IF MissingAuth(DefaultClient(auth))
                    THEN \* client.get raises ValueError before any network call
                         [loc EXCEPT !.pc = "failed", !.why = "config_error"]
                    ELSE IF raises
                    THEN [loc EXCEPT !.pc = "failed", !.why = "client_error"]
                    ELSE [loc EXCEPT !.pc = "page", !.nlogs = 0,
                                     !.timestamps = {}, !.served = {}]
          /\ state' = IF MissingAuth(DefaultClient(auth)) \/ raises
                      THEN StateOnError(state) ELSE state
    /\ hist' = [hist EXCEPT
                  !.nreq = @ + 1,
                  !.total = @ + 1,
                  !.sent = IF MissingAuth(DefaultClient(auth)) THEN @ ELSE @ + 1,
                  !.signed = @ + SignerCalls(DefaultClient(auth)),
                  !.req = prepare_params([NoRequest EXCEPT !.count = PageSize],
                                         loc.since, loc.token),
                  !.atRequest = state]
    /\ UNCHANGED <<resource, auth, start_timestamp, authVars, clientVars, queryVars, normVars, timeVars, pathVars, extractVars, enrichVars>>

\* one pass of "for element in elements" over the next element r of the page
TokenRecord(res, r) ==
    /\ resource = res
    /\ loc.pc = "page"
    /\ loc.nlogs < PageSize
    /\ r \notin loc.served
    /\ IF NoTimestamp(r)
       THEN /\ loc' = [loc EXCEPT !.nlogs = @ + 1, !.served = @ \cup {r}]
            /\ hist' = hist
            /\ state' = state
       ELSE /\ loc' = [loc EXCEPT !.nlogs = @ + 1, !.served = @ \cup {r},
                                  !.timestamps = @ \cup {r},
                                  !.max_seen = UpdateMax(loc.max_seen, r.ts),
                                  !.emitted = @ + 1]
            /\ hist' = [hist EXCEPT !.yielded = @ \cup {r}]
            /\ state' = StateAtYield(state, loc'.max_seen)
    /\ UNCHANGED <<resource, auth, start_timestamp, authVars, clientVars, queryVars, normVars, timeVars, pathVars, extractVars, enrichVars>>

C4_TokenNotAdvanced(token, next_token) == token

\* token = next_token
AdvanceToken(token, next_token) == next_token

\* the page ends after loc.nlogs elements; the payload carried next_token
TokenEndOfPage(res, next_token) ==
    /\ resource = res
    /\ loc.pc = "page"
    /\ hist' = [hist EXCEPT !.nresp = @ + 1, !.lastTok = next_token,
                            !.lastHadRecords = loc.nlogs > 0]
    /\ IF loc.nlogs = 0
       THEN \* if not elements:
            /\ state' = [state EXCEPT
                           !.continuation_token = "none",
                           !.last_timestamp = EmptyPageWatermark(loc.since, @)]
            /\ loc' = [loc EXCEPT !.pc = "done", !.why = "empty"]
       ELSE IF next_token # ""
       THEN /\ state' = [state EXCEPT !.continuation_token = next_token]
            /\ loc' = [loc EXCEPT !.pc = "request",
                                  !.token = AdvanceToken(loc.token, next_token)]
       ELSE /\ state' = [state EXCEPT
                           !.last_timestamp = IF loc.max_seen # 0
                                              THEN WatermarkOf(loc.max_seen) ELSE @,
                           !.continuation_token = "none"]
            /\ loc' = [loc EXCEPT !.pc = "done", !.why = "no_token"]
    /\ UNCHANGED <<resource, auth, start_timestamp, authVars, clientVars, queryVars, normVars, timeVars, pathVars, extractVars, enrichVars>>

\* ---- account_log: continuation token, else "before" fallback ----
\* what an exchange that honours the inclusive since / before bounds, lists
\* newest first and issues no continuation token may serve for a request
Eligible(req) ==
    {r \in Ledger : /\ r.ts # 0
                    /\ (req.since = 0 \/ r.ts >= req.since)
                    /\ (req.before = 0 \/ r.ts <= req.before)}

HonestRecord(req, served, r) ==
    /\ r \in Eligible(req)
    /\ \A s \in served : r.ts <= s.ts

HonestPageEnd(req, served, next_token) ==
    /\ next_token = ""
    /\ \A e \in Eligible(req) \ served :
          /\ Cardinality(served) = req.count
          /\ \A s \in served : e.ts <= s.ts

\* the locals when a payload has arrived: timestamps = [], nothing looped over
ALPageLocals(l) ==
    [l EXCEPT !.pc = "page", !.nlogs = 0, !.timestamps = {}, !.served = {}]

\* params = {"count": page_size}; if before: params["before"] = before;
\* params = prepare_params(params, since, token); client.get(...)
ALRequest ==
    /\ resource = "account_log"
    /\ loc.pc = "request"
    /\ hist.total < MaxRequests
    /\ LET base == [NoRequest EXCEPT
                      !.count = PageSize,
                      !.before = IF Truthy(loc.before) THEN NumOf(loc.before) ELSE 0]
           prepared == prepare_params(base, loc.since, loc.token)
       IN hist' = [hist EXCEPT
                     !.nreq = @ + 1,
                     !.total = @ + 1,
                     !.sent = @ + 1,
                     !.signed = @ + SignerCalls(DefaultClient(auth)),
                     !.req = prepared,
                     !.atRequest = state,
                     !.streak = IF prepared.before # 0 /\ prepared.token = ""
                                THEN (IF hist.req.before = prepared.before
                                         /\ hist.req.token = ""
                                      THEN @ + 1 ELSE 1)
                                ELSE 0]
    /\ \E raises \in BOOLEAN :
          /\ loc' = IF raises
                    THEN [loc EXCEPT !.pc = "failed", !.why = "client_error"]
                    ELSE ALPageLocals(loc)
          /\ state' = IF raises THEN StateOnError(state) ELSE state
    /\ UNCHANGED <<resource, auth, start_timestamp, authVars, clientVars, queryVars, normVars, timeVars, pathVars, extractVars, enrichVars>>

C15_FilterExclusiveOfSeed(isv, r) == isv # 0 /\ r.ts < isv

\* if initial_since_value and timestamp_ms <= initial_since_value: continue
ResumeSkip(isv, r) == isv # 0 /\ r.ts <= isv

C6_SkipsWholeBoundaryTimestamp(lbt, boundary, r) == lbt # 0 /\ r.ts = lbt

\* the record was already emitted at the inclusive boundary
BoundarySkip(lbt, boundary, r) ==
    /\ lbt # 0
    /\ r.ts = lbt
    /\ r.uid # ""
    /\ r.uid \in boundary

\* the three "continue" of the loop body
ALSkips(l, r) ==
    NoTimestamp(r) \/ ResumeSkip(l.isv, r) \/ BoundarySkip(l.lbt, l.boundary, r)

\* the locals after one pass of "for log in logs" over r
ALRecordLocals(l, r) ==
    IF ALSkips(l, r)
    THEN [l EXCEPT !.nlogs = @ + 1, !.served = @ \cup {r}]
    ELSE [l EXCEPT !.nlogs = @ + 1, !.served = @ \cup {r},
                   !.timestamps = @ \cup {r},
                   !.max_seen = UpdateMax(l.max_seen, r.ts),
                   !.emitted = @ + 1]

\* one pass of "for log in logs" over the next record r of the page
ALRecord(r) ==
    /\ resource = "account_log"
    /\ loc.pc = "page"
    /\ loc.nlogs < PageSize
    /\ r \notin loc.served
    /\ loc' = ALRecordLocals(loc, r)
    /\ IF ALSkips(loc, r)
       THEN /\ hist' = [hist EXCEPT
                          !.honest = @ /\ HonestRecord(hist.req, loc.served, r)]
            /\ state' = state
       ELSE /\ hist' = [hist EXCEPT
                          !.yielded = @ \cup {r},
                          !.repeated = @ \/ r \in hist.yielded,
                          !.honest = @ /\ HonestRecord(hist.req, loc.served, r)]
            /\ state' = StateAtYield(state, loc'.max_seen)
    /\ UNCHANGED <<resource, auth, start_timestamp, authVars, clientVars, queryVars, normVars, timeVars, pathVars, extractVars, enrichVars>>

\* seen_before_timestamps.append(earliest), keeping the last max_before_history
PushSeen(seen, earliest) ==
    LET s == Append(seen, earliest)
    IN IF Len(s) > max_before_history THEN Tail(s) ELSE s

C7_GuardNeverFull(seen) ==
    Len(seen) > max_before_history /\ \A i \in 1..Len(seen) : seen[i] = seen[1]

\* len(seen) == max_before_history and len(set(seen)) == 1
LoopDetected(seen) ==
    Len(seen) = max_before_history /\ \A i \in 1..Len(seen) : seen[i] = seen[1]

\* the booking_uids yielded at the earliest timestamp of the page
BoundaryUids(timestamps, earliest) ==
    {r.uid : r \in {x \in timestamps : x.ts = earliest /\ x.uid # ""}}

C38_TokenKeepsBefore(st, next_token) ==
    [st EXCEPT !.continuation_token = next_token,
               !.boundary_booking_uids = {}]

\* state["continuation_token"] = next_token; state["before"] = None;
\* state["boundary_booking_uids"] = []
TokenBranchState(st, next_token) ==
    [st EXCEPT !.continuation_token = next_token,
               !.before = NoneV,
               !.boundary_booking_uids = {}]

C31_TokenOnlyOnFullPage(next_token, nlogs) ==
    next_token # "" /\ nlogs >= PageSize

\* if next_token: (the page size is not looked at)
TokenPresent(next_token, nlogs) == next_token # ""

\* the code after "for log in logs" (and the "if not logs" branch before it):
\* the locals and the persisted state it leaves, and the branch it took
ALPageEnd(l, st, next_token) ==
    LET earliest == Earliest(l.timestamps)
        seen == PushSeen(l.seen, earliest)
        \* lines 165-169, common to the three branches without a token
        common == [st EXCEPT
                     !.last_timestamp = IF l.max_seen # 0
                                        THEN WatermarkOf(l.max_seen) ELSE @,
                     !.continuation_token = "none",
                     !.boundary_booking_uids = {}]
    IN IF l.nlogs = 0
       THEN \* if not logs:
            [branch |-> "empty",
             state |-> [st EXCEPT
                          !.continuation_token = "none",
                          !.before = NoneV,
                          !.last_timestamp = EmptyPageWatermark(l.since, @)],
             loc |-> [l EXCEPT !.pc = "done", !.why = "empty"]]
       ELSE IF TokenPresent(next_token, l.nlogs)
       THEN \* if next_token:
            [branch |-> "token",
             state |-> TokenBranchState(st, next_token),
             loc |-> [l EXCEPT
                        !.pc = "request",
                        !.token = AdvanceToken(l.token, next_token),
                        !.lbt = 0, !.boundary = {}, !.seen = <<>>]]
       ELSE IF l.since # 0 /\ l.timestamps # {} /\ earliest <= l.since
       THEN \* reached the start timestamp
            [branch |-> "reached_start",
             state |-> [common EXCEPT !.before = NoneV],
             loc |-> [l EXCEPT !.pc = "done", !.why = "reached_start",
                               !.boundary = {}]]
       ELSE IF l.nlogs >= PageSize /\ earliest # 0
       THEN IF LoopDetected(seen)
            THEN [branch |-> "loop_guard",
                  state |-> [common EXCEPT !.before = NoneV],
                  loc |-> [l EXCEPT !.pc = "done", !.why = "loop_guard",
                                    !.boundary = {}, !.seen = seen]]
            ELSE [branch |-> "fallback",
                  state |-> [common EXCEPT
                               !.boundary_booking_uids =
                                   BoundaryUids(l.timestamps, earliest),
                               !.before = StrV(earliest)],
                  loc |-> [l EXCEPT
                             !.pc = "request",
                             !.seen = seen,
                             !.before = IntV(earliest),
                             !.lbt = earliest,
                             !.boundary = BoundaryUids(l.timestamps, earliest),
                             !.token = ""]]
       ELSE \* pagination complete
            [branch |-> "partial",
             state |-> [common EXCEPT !.before = NoneV],
             loc |-> [l EXCEPT !.pc = "done", !.why = "partial",
                               !.boundary = {}]]

\* the page ends after loc.nlogs records; the payload carried next_token
ALEndOfPage(next_token) ==
    /\ resource = "account_log"
    /\ loc.pc = "page"
    /\ LET end == ALPageEnd(loc, state, next_token)
           earliest == Earliest(loc.timestamps)
           h == [hist EXCEPT
                   !.nresp = @ + 1, !.lastTok = next_token,
                   !.lastHadRecords = loc.nlogs > 0,
                   !.prevBoundary = {},
                   !.honest = @ /\ HonestPageEnd(hist.req, loc.served, next_token)]
       IN /\ state' = end.state
          /\ loc' = end.loc
          /\ hist' = CASE end.branch = "token" -> [h EXCEPT !.resolved = <<>>]
                       [] end.branch = "loop_guard" ->
                            [h EXCEPT !.resolved = Append(@, earliest)]
                       [] end.branch = "fallback" ->
                            [h EXCEPT
                               !.resolved = Append(@, earliest),
                               !.prevBoundary =
                                   {r \in loc.timestamps : r.ts = earliest}]
                       [] OTHER -> h
    /\ UNCHANGED <<resource, auth, start_timestamp, authVars, clientVars, queryVars, normVars, timeVars, pathVars, extractVars, enrichVars>>

\* ---- account_log over an unbounded run ----
\* The same code with the history left aside and records_emitted, which only
\* feeds the log line, not counted: a run of any length over tokenless pages
\* of any content.
LiveSeed ==
    /\ resource = "account_log"
    /\ loc.pc = "seed"
    /\ state' = SeedState(resource, state)
    /\ loc' = SeedLocals(resource, start_timestamp, state)
    /\ UNCHANGED <<resource, auth, start_timestamp, hist, authVars, clientVars, queryVars, normVars, timeVars, pathVars, extractVars, enrichVars>>

LiveRequest ==
    /\ resource = "account_log"
    /\ loc.pc = "request"
    /\ loc' = ALPageLocals(loc)
    /\ UNCHANGED <<resource, auth, start_timestamp, state, hist, authVars, clientVars, queryVars, normVars, timeVars, pathVars, extractVars, enrichVars>>

LiveRecord(r) ==
    /\ resource = "account_log"
    /\ loc.pc = "page"
    /\ loc.nlogs < PageSize
    /\ r \notin loc.served
    /\ loc' = [ALRecordLocals(loc, r) EXCEPT !.emitted = 0]
    /\ state' = IF ALSkips(loc, r) THEN state
                ELSE StateAtYield(state, ALRecordLocals(loc, r).max_seen)
    /\ UNCHANGED <<resource, auth, start_timestamp, hist, authVars, clientVars, queryVars, normVars, timeVars, pathVars, extractVars, enrichVars>>

\* the payload carried no continuation token
LiveEndOfPage ==
    /\ resource = "account_log"
    /\ loc.pc = "page"
    /\ state' = ALPageEnd(loc, state, "").state
    /\ loc' = ALPageEnd(loc, state, "").loc
    /\ UNCHANGED <<resource, auth, start_timestamp, hist, authVars, clientVars, queryVars, normVars, timeVars, pathVars, extractVars, enrichVars>>


\* ---- open_positions: a snapshot, no cursor state ----
\* the auth check passed; client = client or KrakenFuturesClient(auth=auth)
OPStart ==
    /\ resource = "open_positions"
    /\ loc.pc \in {"seed", "done", "stopped", "failed"}
    /\ hist.run < MaxRuns
    /\ ~AuthRejected(resource, auth)
    /\ loc' = [NoLocals EXCEPT !.pc = "request"]
    /\ hist' = [NoHistory EXCEPT !.run = hist.run + 1, !.total = hist.total,
                                 !.honest = hist.honest, !.seed = state,
                                 !.prevEnd = loc.pc]
    /\ UNCHANGED <<resource, auth, start_timestamp, state, authVars, clientVars, queryVars, normVars, timeVars, pathVars, extractVars, enrichVars>>

\* payload = client.get("/derivatives/api/v3/openpositions", params=None, private=True)
OPRequest ==
    /\ resource = "open_positions"
    /\ loc.pc = "request"
    /\ hist.total < MaxRequests
    /\ \E raises \in BOOLEAN :
          /\ loc' = IF raises
                    THEN [loc EXCEPT !.pc = "failed", !.why = "client_error"]
                    ELSE [loc EXCEPT !.pc = "page"]
          /\ state' = IF raises THEN StateOnError(state) ELSE state
    /\ hist' = [hist EXCEPT !.nreq = @ + 1, !.total = @ + 1, !.sent = @ + 1,
                            !.signed = @ + SignerCalls(DefaultClient(auth)),
                            !.atRequest = state]
    /\ UNCHANGED <<resource, auth, start_timestamp, authVars, clientVars, queryVars, normVars, timeVars, pathVars, extractVars, enrichVars>>

\* one pass of "for position in positions", or the end of the list
OPRecord(r) ==
    /\ resource = "open_positions"
    /\ loc.pc = "page"
    /\ loc.nlogs < PageSize
    /\ r \notin loc.served
    /\ loc' = [loc EXCEPT !.nlogs = @ + 1, !.served = @ \cup {r},
                          !.emitted = @ + 1]
    /\ hist' = [hist EXCEPT !.yielded = @ \cup {r}]
    /\ UNCHANGED <<resource, auth, start_timestamp, state, authVars, clientVars, queryVars, normVars, timeVars, pathVars, extractVars, enrichVars>>

OPEnd ==
    /\ resource = "open_positions"
    /\ loc.pc = "page"
    /\ loc' = [loc EXCEPT !.pc = "done", !.why = "snapshot"]
    /\ hist' = [hist EXCEPT !.nresp = @ + 1]
    /\ UNCHANGED <<resource, auth, start_timestamp, state, authVars, clientVars, queryVars, normVars, timeVars, pathVars, extractVars, enrichVars>>

\* ---- tickers: a public snapshot, no cursor state ----
\* client = client or KrakenFuturesClient()
TkStart ==
    /\ resource = "tickers"
    /\ loc.pc \in {"seed", "done", "stopped", "failed"}
    /\ hist.run < MaxRuns
    /\ loc' = [NoLocals EXCEPT !.pc = "request"]
    /\ hist' = [NoHistory EXCEPT !.run = hist.run + 1, !.total = hist.total,
                                 !.honest = hist.honest, !.seed = state,
                                 !.prevEnd = loc.pc]
    /\ UNCHANGED <<resource, auth, start_timestamp, state, authVars, clientVars, queryVars, normVars, timeVars, pathVars, extractVars, enrichVars>>

\* payload = client.get("/derivatives/api/v3/tickers", params=None, private=False)
TkRequest ==
    /\ resource = "tickers"
    /\ loc.pc = "request"
    /\ hist.total < MaxRequests
    /\ \E raises \in BOOLEAN :
          /\ loc' = IF MissingAuth(TickersClient)
                    THEN [loc EXCEPT !.pc = "failed", !.why = "config_error"]
                    ELSE IF raises
                    THEN [loc EXCEPT !.pc = "failed", !.why = "client_error"]
                    ELSE [loc EXCEPT !.pc = "page"]
          /\ state' = IF MissingAuth(TickersClient) \/ raises
                      THEN StateOnError(state) ELSE state
    /\ hist' = [hist EXCEPT
                  !.nreq = @ + 1, !.total = @ + 1,
                  !.sent = IF MissingAuth(TickersClient) THEN @ ELSE @ + 1,
                  !.signed = @ + SignerCalls(TickersClient),
                  !.atRequest = state]
    /\ UNCHANGED <<resource, auth, start_timestamp, authVars, clientVars, queryVars, normVars, timeVars, pathVars, extractVars, enrichVars>>

\* record = dict(ticker); record["raw_data"] = json_dumps(ticker)
WithRawData(r) == [uid |-> r.uid, ts |-> r.ts, raw_data |-> r]

\* one pass of "for ticker in tickers_data"
TkRecord(r) ==
    /\ resource = "tickers"
    /\ loc.pc = "page"
    /\ loc.nlogs < PageSize
    /\ r \notin loc.served
    /\ loc' = [loc EXCEPT !.nlogs = @ + 1, !.served = @ \cup {r},
                          !.emitted = @ + 1]
    /\ hist' = [hist EXCEPT !.yielded = @ \cup {r},
                            !.rows = @ \cup {WithRawData(r)}]
    /\ UNCHANGED <<resource, auth, start_timestamp, state, authVars, clientVars, queryVars, normVars, timeVars, pathVars, extractVars, enrichVars>>

\* the list is exhausted: log_resource_stats("tickers", count, None)
TkEnd ==
    /\ resource = "tickers"
    /\ loc.pc = "page"
    /\ loc' = [loc EXCEPT !.pc = "done", !.why = "snapshot"]
    /\ hist' = [hist EXCEPT !.nresp = @ + 1]
    /\ UNCHANGED <<resource, auth, start_timestamp, state, authVars, clientVars, queryVars, normVars, timeVars, pathVars, extractVars, enrichVars>>

\* ---- the three incremental extractors ----
ExRequest == TokenRequest("executions")
ExRecord == \E r \in Ledger : TokenRecord("executions", r)
ExEndOfPage == \E tok \in Tokens \cup {""} : TokenEndOfPage("executions", tok)

PHRequest == TokenRequest("position_history")
PHRecord == \E r \in Ledger : TokenRecord("position_history", r)
PHEndOfPage == \E tok \in Tokens \cup {""} : TokenEndOfPage("position_history", tok)

(***************************************************************************)
(* The query string: KrakenFuturesClient.get builds the one in the URL,    *)
(* KrakenFuturesAuth._canonical_query the one that is hashed.              *)
(*                                                                         *)
(* A str is a sequence of one-character strings.                           *)
(***************************************************************************)
\* the characters of the model in code point order
Alphabet ==
    <<" ", "&", "0", "1", "2", "3", "4", "5", "6", "7", "8", "9", "=",
      "N", "b", "c", "e", "f", "i", "n", "o", "r", "s", "t", "u", "x">>

ord(c) == CHOOSE i \in 1..Len(Alphabet) : Alphabet[i] = c

\* a < b for two str, as Python compares them
RECURSIVE StrLess(_, _)
StrLess(a, b) ==
    IF b = <<>> THEN FALSE
    ELSE IF a = <<>> THEN TRUE
    ELSE IF Head(a) = Head(b) THEN StrLess(Tail(a), Tail(b))
    ELSE ord(Head(a)) < ord(Head(b))

\* parameter values: None, an int, a str
QNone == [t |-> "none", n |-> 0, s |-> <<>>]
QInt(n) == [t |-> "int", n |-> n, s |-> <<>>]
QStr(s) == [t |-> "str", n |-> 0, s |-> s]

\* the parameter names the resources use
ParamKeys ==
    { <<"b", "e", "f", "o", "r", "e">>, <<"c", "o", "u", "n", "t">>,
      <<"s", "i", "n", "c", "e">> }

ParamValues ==
    { QNone, QInt(500), QStr(<<"x", " ", "&">>), QStr(<<"t", "=", "1">>) }

\* every mapping from some of the names to values
ParamMaps ==
    UNION { [K -> ParamValues] : K \in SUBSET ParamKeys }

NoParams == [k \in {} |-> QNone]

QueryIdle == [built |-> FALSE, signed |-> FALSE]

\* str(n) of an int n >= 0
RECURSIVE Digits(_)
Digits(n) ==
    IF n < 10 THEN <<Alphabet[n + 3]>>
    ELSE Digits(n \div 10) \o <<Alphabet[(n % 10) + 3]>>

\* str(value)
Str(v) ==
    CASE v.t = "int" -> Digits(v.n)
      [] v.t = "str" -> v.s
      [] OTHER -> <<"N", "o", "n", "e">>

\* quote_plus of one character
QuoteChar(c) ==
    CASE c = " " -> <<"+">>
      [] c = "&" -> <<"%", "2", "6">>
      [] c = "=" -> <<"%", "3", "D">>
      [] OTHER -> <<c>>

RECURSIVE quote_plus(_)
quote_plus(s) ==
    IF s = <<>> THEN <<>> ELSE QuoteChar(Head(s)) \o quote_plus(Tail(s))

\* urlencode(items) of a list of (key, value) pairs of str
RECURSIVE urlencode(_)
urlencode(items) ==
    IF items = <<>> THEN <<>>
    ELSE LET pair == quote_plus(Head(items)[1]) \o <<"=">> \o quote_plus(Head(items)[2])
         IN IF Tail(items) = <<>> THEN pair
            ELSE pair \o <<"&">> \o urlencode(Tail(items))

\* sorted(keys)
RECURSIVE SortedKeys(_)
SortedKeys(K) ==
    IF K = {} THEN <<>>
    ELSE LET least == CHOOSE k \in K : \A o \in K \ {k} : StrLess(k, o)
         IN <<least>> \o SortedKeys(K \ {least})

\* sorted(filtered.items()): the pairs compare by key first, and keys are unique
RECURSIVE SortedItems(_)
SortedItems(filtered) ==
    IF DOMAIN filtered = {} THEN <<>>
    ELSE LET least == CHOOSE k \in DOMAIN filtered :
                         \A o \in DOMAIN filtered \ {k} : StrLess(k, o)
             rest == [k \in DOMAIN filtered \ {least} |-> filtered[k]]
         IN <<<<least, filtered[least]>>>> \o SortedItems(rest)

\* client.py 98-103
ClientQueryString(p) ==
    IF DOMAIN p = {} THEN <<>>
    ELSE LET filtered == [k \in {x \in DOMAIN p : p[x].t # "none"} |-> Str(p[k])]
         IN IF DOMAIN filtered = {} THEN <<>>
            ELSE urlencode(SortedItems(filtered))

RECURSIVE C19_SignerKeepsNulls(_, _)
C19_SignerKeepsNulls(p, keys) ==
    IF keys = <<>> THEN <<>>
    ELSE <<<<Head(keys), Str(p[Head(keys)])>>>> \o C19_SignerKeepsNulls(p, Tail(keys))

\* "for key in sorted(params)": the items list, built key by key
RECURSIVE SignerItems(_, _)
SignerItems(p, keys) ==
    IF keys = <<>> THEN <<>>
    ELSE IF p[Head(keys)].t = "none" THEN SignerItems(p, Tail(keys))
    ELSE <<<<Head(keys), Str(p[Head(keys)])>>>> \o SignerItems(p, Tail(keys))

\* KrakenFuturesAuth._canonical_query
canonical_query(p) ==
    IF DOMAIN p = {} THEN <<>>
    ELSE urlencode(SignerItems(p, SortedKeys(DOMAIN p)))

\* get builds the URL
BuildQueryString ==
    /\ ~qpc.built
    /\ query_string' = ClientQueryString(params)
    /\ qpc' = [qpc EXCEPT !.built = TRUE]
    /\ UNCHANGED <<params, payload, authVars, clientVars, extVars, normVars, timeVars, pathVars, extractVars, enrichVars>>

\* the Signer computes the payload it hashes
SignPayload ==
    /\ ~qpc.signed
    /\ payload' = canonical_query(params)
    /\ qpc' = [qpc EXCEPT !.signed = TRUE]
    /\ UNCHANGED <<params, query_string, authVars, clientVars, extVars, normVars, timeVars, pathVars, extractVars, enrichVars>>

(***************************************************************************)
(* position_history: the loop body over one element of a page              *)
(*                                                                         *)
(* A field holds a str; "absent" stands for a missing key and "null" for a *)
(* JSON null.  Timestamps are as in the extractors, 0 for a missing one.   *)
(***************************************************************************)
\* the fields of an element, or of its PositionUpdate, that the loop reads
Bodies ==
    [executionUid : {"absent", "", "null", "xyz"},
     updateReason : {"absent", "null", "funding"},
     tradeable : {"absent", "PF_XBTUSD"},
     uid : {"absent", "inner"},
     timestamp : {0, 3}]

\* elements as the exchange returns them: flat, or with event.PositionUpdate
Elements ==
    { e \in [uid : {"abc"}, timestamp : {0, 1, 2},
             event : {"none", "PositionUpdate"}, body : Bodies] :
        e.event = "none" => (e.body.uid = "absent" /\ e.body.timestamp = 0) }

NoElement ==
    [uid |-> "abc", timestamp |-> 0, event |-> "none",
     body |-> [executionUid |-> "absent", updateReason |-> "absent",
               tradeable |-> "absent", uid |-> "absent", timestamp |-> 0]]

NoRecord ==
    [status |-> "pending", uid |-> "absent", timestamp |-> 0,
     executionUid |-> <<>>, updateReason |-> "absent", tradeable |-> "absent",
     cursor_ms |-> 0]

\* lines 84-94: {"uid": ..., "timestamp": ..., **position_update}, where a key
\* of the PositionUpdate replaces the outer one of the same name; else
\* dict(element)
Flatten(e) ==
    IF e.event = "PositionUpdate"
    THEN [uid |-> IF e.body.uid # "absent" THEN e.body.uid ELSE e.uid,
          timestamp |-> IF e.body.timestamp # 0 THEN e.body.timestamp
                        ELSE e.timestamp,
          executionUid |-> e.body.executionUid,
          updateReason |-> e.body.updateReason,
          tradeable |-> e.body.tradeable]
    ELSE [uid |-> e.uid, timestamp |-> e.timestamp,
          executionUid |-> e.body.executionUid,
          updateReason |-> e.body.updateReason,
          tradeable |-> e.body.tradeable]

C20_OnlyAbsentKey(v) == v = "absent"

\* "executionUid" not in record or not record["executionUid"]
LacksValue(v) == v \in {"absent", "", "null"}

\* record.get(key, "unknown") inside the f-string
GetOrUnknown(v) ==
    CASE v = "absent" -> "unknown"
      [] v = "null" -> "None"
      [] OTHER -> v

\* f"{update_reason}-{tradeable}-{timestamp_ms}"
SyntheticUid(n, timestamp_ms) ==
    <<GetOrUnknown(n.updateReason), "-", GetOrUnknown(n.tradeable), "-">>
        \o Digits(timestamp_ms)

\* lines 82-116 for one element
PHNormalize ==
    /\ record.status = "pending"
    /\ LET normalized == Flatten(element)
           timestamp_ms == normalized.timestamp
       IN record' =
            IF timestamp_ms = 0
            THEN [NoRecord EXCEPT !.status = "skipped"]
            ELSE [status |-> "yielded",
                  uid |-> normalized.uid,
                  timestamp |-> normalized.timestamp,
                  executionUid |->
                      IF LacksValue(normalized.executionUid)
                      THEN SyntheticUid(normalized, timestamp_ms)
                      ELSE <<normalized.executionUid>>,
                  updateReason |-> normalized.updateReason,
                  tradeable |-> normalized.tradeable,
                  cursor_ms |-> timestamp_ms]
    /\ UNCHANGED <<element, authVars, clientVars, extVars, queryVars, timeVars, pathVars, extractVars, enrichVars>>

(***************************************************************************)
(* Timestamp conversions: ms_to_iso and coerce_timestamp_ms                *)
(*                                                                         *)
(* Python's float is the IEEE 754 double.  A float is written here as      *)
(* [bits, exp]: bits is the significand, most significant bit first and    *)
(* without leading zeros (<<>> for 0.0), and the value is bits * 2^exp.    *)
(* Every operation rounds to the nearest double, ties to even, as the      *)
(* hardware does.  Only non-negative values occur.                         *)
(***************************************************************************)
\* the number of binary digits of a natural number below 2^30
Width(n) == CHOOSE w \in 0..30 : n < 2 ^ w /\ (w = 0 \/ n >= 2 ^ (w - 1))

\* the w low binary digits of n, most significant first
FixedBits(n, w) == [i \in 1..w |-> (n \div 2 ^ (w - i)) % 2]

\* the binary digits of a natural number, most significant first
BitsOf(n) == FixedBits(n, Width(n))

RECURSIVE IntOfBits(_)
IntOfBits(b) ==
    IF b = <<>> THEN 0
    ELSE IF Len(b) = 1 THEN b[1]
    ELSE LET h == Len(b) \div 2
         IN IntOfBits(SubSeq(b, 1, h)) * 2 ^ (Len(b) - h)
              + IntOfBits(SubSeq(b, h + 1, Len(b)))

StripLeadingZeros(b) ==
    IF \A i \in 1..Len(b) : b[i] = 0 THEN <<>>
    ELSE LET k == CHOOSE i \in 1..Len(b) :
                     b[i] = 1 /\ \A j \in 1..(i - 1) : b[j] = 0
         IN SubSeq(b, k, Len(b))

\* b + 1
Increment(b) ==
    IF \A i \in 1..Len(b) : b[i] = 1 THEN <<1>> \o [i \in 1..Len(b) |-> 0]
    ELSE LET k == CHOOSE i \in 1..Len(b) :
                     b[i] = 0 /\ \A j \in (i + 1)..Len(b) : b[j] = 1
         IN [i \in 1..Len(b) |->
               IF i < k THEN b[i] ELSE IF i = k THEN 1 ELSE 0]

\* round to nearest, ties to even: kept are the digits that stay, dropped the
\* digits below them
RoundHalfEven(kept, dropped) ==
    IF /\ dropped # <<>>
       /\ dropped[1] = 1
       /\ \/ \E i \in 2..Len(dropped) : dropped[i] = 1
          \/ (kept # <<>> /\ kept[Len(kept)] = 1)
    THEN Increment(kept)
    ELSE kept

Zero == [bits |-> <<>>, exp |-> 0]

\* the double nearest to bits * 2^exp
RoundToDouble(bits, exp) ==
    LET b == StripLeadingZeros(bits)
    IN IF Len(b) <= MantissaBits THEN [bits |-> b, exp |-> exp]
       ELSE LET r == RoundHalfEven(SubSeq(b, 1, MantissaBits),
                                   SubSeq(b, MantissaBits + 1, Len(b)))
                e == exp + Len(b) - MantissaBits
            IN IF Len(r) > MantissaBits
               THEN [bits |-> SubSeq(r, 1, MantissaBits), exp |-> e + 1]
               ELSE [bits |-> r, exp |-> e]

\* long division of r / d below the binary point, ChunkBits digits at a time
\* (r < d < 2^20): the digits of n chunks, and the remainder after them
RECURSIVE DivChunks(_, _, _)
DivChunks(r, d, n) ==
    IF n = 0 THEN <<>>
    ELSE FixedBits((r * 2 ^ ChunkBits) \div d, ChunkBits)
           \o DivChunks((r * 2 ^ ChunkBits) % d, d, n - 1)

RECURSIVE DivRemainder(_, _, _)
DivRemainder(r, d, n) ==
    IF n = 0 THEN r ELSE DivRemainder((r * 2 ^ ChunkBits) % d, d, n - 1)

\* a / d of two ints (true division), correctly rounded; 0 <= a < 2^30 and
\* 0 < d < 2^20.  The quotient is developed far enough for a full significand
\* and a rounding digit; a last digit tells whether anything is left below.
FloatDiv(a, d) ==
    IF a = 0 THEN Zero
    ELSE RoundToDouble(
            BitsOf(a \div d) \o DivChunks(a % d, d, DivChunkCount)
              \o <<IF DivRemainder(a % d, d, DivChunkCount) # 0 THEN 1 ELSE 0>>,
            -(ChunkBits * DivChunkCount) - 1)

\* bits * c + carry, exactly, ChunkBits digits at a time (c < 2^20)
RECURSIVE MulCarry(_, _, _)
MulCarry(bits, carry, c) ==
    IF bits = <<>> THEN BitsOf(carry)
    ELSE LET n == Len(bits)
             k == IF n > ChunkBits THEN n - ChunkBits ELSE 0
             v == IntOfBits(SubSeq(bits, k + 1, n)) * c + carry
         IN MulCarry(SubSeq(bits, 1, k), v \div 2 ^ (n - k), c)
              \o FixedBits(v % 2 ^ (n - k), n - k)

\* x * c of a float and an int constant
FloatMul(x, c) == RoundToDouble(MulCarry(x.bits, 0, c), x.exp)

\* the digits of x above and below the binary point
IntDigits(x) ==
    IF x.exp >= 0 THEN x.bits \o [i \in 1..x.exp |-> 0]
    ELSE IF Len(x.bits) + x.exp <= 0 THEN <<>>
    ELSE SubSeq(x.bits, 1, Len(x.bits) + x.exp)

FracDigits(x) ==
    IF x.exp >= 0 THEN <<>>
    ELSE IF Len(x.bits) + x.exp <= 0
    THEN [i \in 1..(-x.exp - Len(x.bits)) |-> 0] \o x.bits
    ELSE SubSeq(x.bits, Len(x.bits) + x.exp + 1, Len(x.bits))

\* int(x): truncation
Trunc(x) == IntOfBits(IntDigits(x))

\* the fractional part of x, a float (modf)
Frac(x) == RoundToDouble(FracDigits(x), IF x.exp >= 0 THEN 0 ELSE x.exp)

\* round(x), ties to even, as datetime.fromtimestamp rounds to microseconds
RoundToInt(x) == IntOfBits(RoundHalfEven(IntDigits(x), FracDigits(x)))

\* an ISO 8601 string, by the fields it spells out (the dates of the model are
\* all in January 1970, UTC)
IsoString(seconds, microsecond) ==
    [t |-> "iso", year |-> 1970, month |-> 1,
     day |-> seconds \div 86400 + 1,
     hour |-> (seconds % 86400) \div 3600,
     minute |-> (seconds % 3600) \div 60,
     second |-> seconds % 60,
     microsecond |-> microsecond]

\* datetime.fromtimestamp(timestamp_ms / 1000, tz=UTC).isoformat()
ms_to_iso(ms) ==
    LET x == FloatDiv(ms, 1000)
        us == RoundToInt(FloatMul(Frac(x), 1000000))
    IN IF us >= 1000000 THEN IsoString(Trunc(x) + 1, us - 1000000)
       ELSE IsoString(Trunc(x), us)

\* dt.timestamp(): (dt - epoch) / timedelta(seconds=1), microseconds / 10^6
DatetimeTimestamp(dt) ==
    FloatDiv((((dt.day - 1) * 86400 + dt.hour * 3600 + dt.minute * 60
               + dt.second) * 1000000) + dt.microsecond, 1000000)

NotCoerced == [t |-> "pending", v |-> 0]

\* A Python int of any size is the sequence of its binary digits.
\* a * 10^12 + b * 10^6 + c, for a, b, c below 2^20
Nat3(a, b, c) == MulCarry(MulCarry(BitsOf(a), b, 1000000), c, 1000000)

NumV(bits) == [t |-> "num", bits |-> bits]

\* m > n, for two naturals in binary digits
BitsGreater(m, n) ==
    \/ Len(m) > Len(n)
    \/ /\ Len(m) = Len(n)
       /\ \E i \in 1..Len(m) :
             /\ m[i] > n[i]
             /\ \A j \in 1..(i - 1) : m[j] = n[j]

\* 1_000_000_000_000
SecondsThreshold == Nat3(1, 0, 0)

C34_AtOrAboveThreshold(value) ==
    \/ BitsGreater(IntDigits(value), SecondsThreshold)
    \/ IntDigits(value) = SecondsThreshold

\* value > 1_000_000_000_000, for a float value
AboveThreshold(value) ==
    \/ BitsGreater(IntDigits(value), SecondsThreshold)
    \/ /\ IntDigits(value) = SecondsThreshold
       /\ \E i \in 1..Len(FracDigits(value)) : FracDigits(value)[i] = 1

\* a string that is neither a number nor an ISO 8601 date
TextV(s) == [t |-> "text", s |-> s]

\* a mapping found where a timestamp was looked for
MapV == [t |-> "map"]

\* the call raised e
Raised(e) == [t |-> "raised", e |-> e]

\* float(raw) succeeds and gives a NaN
ParsesAsNan(s) == s \in {"nan", "NaN"}

\* coerce_timestamp_ms(raw) for None, an int, an ISO 8601 string, another
\* string, and a value that is neither a number nor a string
coerce_timestamp_ms(x) ==
    IF x.t = "iso" THEN IntV(Trunc(FloatMul(DatetimeTimestamp(x), 1000)))
    ELSE IF x.t = "num"
    THEN LET value == RoundToDouble(x.bits, 0)      \* value = float(raw)
         IN IF AboveThreshold(value)
            THEN NumV(IntDigits(value))               \* int(value)
            ELSE NumV(IntDigits(FloatMul(value, 1000))) \* int(value * 1000)
    ELSE IF x.t = "text"
    THEN IF x.s = "" THEN NoneV                       \* if not raw: return None
         ELSE IF ParsesAsNan(x.s)
         \* nan > 10^12 is False; int(nan * 1000) raises
         THEN Raised("ValueError: cannot convert float NaN to integer")
         ELSE NoneV                                   \* fromisoformat raised
    ELSE NoneV

\* the ints handed to coerce_timestamp_ms: seconds and milliseconds of
\* 1970..9999, the threshold and its neighbours among them
NumericInputs ==
    {Nat3(a, b, c) : a \in {0, 1, 253}, b \in {0, 1705, 318200, 999999},
                     c \in (0..MaxLow) \cup {999999}}

\* raw = ms_to_iso(input_ms)
MsToIso ==
    /\ raw = NoneV
    /\ raw' = ms_to_iso(input_ms)
    /\ UNCHANGED <<input_ms, coerced, authVars, clientVars, extVars, queryVars, normVars, pathVars, extractVars, enrichVars>>

\* raw is an int
GiveNumber ==
    /\ raw = NoneV
    /\ \E n \in NumericInputs : raw' = NumV(n)
    /\ UNCHANGED <<input_ms, coerced, authVars, clientVars, extVars, queryVars, normVars, pathVars, extractVars, enrichVars>>

\* coerced = coerce_timestamp_ms(raw)
CoerceTimestamp ==
    /\ raw # NoneV
    /\ coerced = NotCoerced
    /\ coerced' = coerce_timestamp_ms(raw)
    /\ UNCHANGED <<input_ms, raw, authVars, clientVars, extVars, queryVars, normVars, pathVars, extractVars, enrichVars>>

(***************************************************************************)
(* extract_timestamp and lookup_nested (helpers.py)                        *)
(*                                                                         *)
(* A record has the keys "timestamp", "date" and "event"; the value of     *)
(* "event" may be a mapping with a "timestamp" of its own.  A field path   *)
(* is the sequence of its dot-separated parts.                             *)
(***************************************************************************)
\* what a key of a record may hold: nothing (the key is missing), null, an
\* int of seconds or of milliseconds, a string or a mapping
LeafValues ==
    {Absent, NoneV, NumV(Nat3(0, 0, 5)), NumV(Nat3(1, 705000, 0)),
     TextV("abc"), TextV("nan"), MapV}

EventValues ==
    {Absent, NoneV, TextV("abc")}
        \cup {[t |-> "map", timestamp |-> v] : v \in LeafValues}

Docs == [timestamp : LeafValues, date : LeafValues, event : EventValues]

NoDoc == [timestamp |-> Absent, date |-> Absent, event |-> Absent]

\* ACCOUNT_LOG_TIMESTAMP_FIELDS, POSITION_HISTORY_TIMESTAMP_FIELDS, and the
\* same in the other order
FieldLists ==
    {<<<<"timestamp">>, <<"date">>>>,
     <<<<"timestamp">>, <<"event", "timestamp">>>>,
     <<<<"event", "timestamp">>, <<"date">>, <<"timestamp">>>>}

\* current.get(part) on a mapping of the model
GetPart(current, part) ==
    IF part \in DOMAIN current /\ part # "t" THEN current[part] ELSE Absent

\* lookup_nested(record, field)
RECURSIVE lookup_nested(_, _)
lookup_nested(current, parts) ==
    IF parts = <<>> THEN current
    ELSE IF "t" \in DOMAIN current /\ current.t # "map"
    THEN NoneV                              \* not isinstance(current, Mapping)
    ELSE LET next == GetPart(current, Head(parts))
         IN IF next \in {Absent, NoneV} THEN NoneV
            ELSE lookup_nested(next, Tail(parts))

\* extract_timestamp(record, fields)
RECURSIVE extract_timestamp(_, _)
extract_timestamp(rec, fs) ==
    IF fs = <<>> THEN NoneV
    ELSE LET value == lookup_nested(rec, Head(fs))
         IN IF value = NoneV THEN extract_timestamp(rec, Tail(fs))
            ELSE LET ts == coerce_timestamp_ms(value)
                 IN IF ts.t = "raised" THEN ts
                    ELSE IF ts # NoneV THEN ts
                    ELSE extract_timestamp(rec, Tail(fs))

ExtractTimestamp ==
    /\ extracted = NotCoerced
    /\ extracted' = extract_timestamp(doc, fields)
    /\ UNCHANGED <<doc, fields, authVars, clientVars, extVars, queryVars, normVars, timeVars, pathVars, enrichVars>>

(***************************************************************************)
(* enrich_record and json_dumps (helpers.py)                               *)
(*                                                                         *)
(* A dict is a function from its keys to tagged values.                    *)
(***************************************************************************)
NoMapping == [k \in {} |-> NoneV]

\* the keys an exchange record may have
ApiKeys == {"uid", "timestamp", "booking_uid"}

\* every mapping from some of the keys to values
ApiRecords ==
    UNION {[K -> {IntV(n) : n \in 1..MaxValues}] : K \in SUBSET ApiKeys}

\* the keys of the model in the order sort_keys=True puts them
KeyOrder ==
    <<"_cursor_timestamp", "_cursor_timestamp_ms", "booking_uid", "raw_data",
      "timestamp", "uid">>

\* json.dumps(record, sort_keys=True, separators=(",", ":")): the key/value
\* pairs of the string, in the order they are written
json_dumps(m) ==
    LET present == SelectSeq(KeyOrder, LAMBDA k : k \in DOMAIN m)
    IN [t |-> "json", items |-> [i \in 1..Len(present) |->
                                    <<present[i], m[present[i]]>>]]

\* d[k] = v
Assign(m, k, v) ==
    [x \in DOMAIN m \cup {k} |-> IF x = k THEN v ELSE m[x]]

\* with "record = element" in place of the copy, the assignments write
\* into the caller's mapping
C36_EnrichInPlace(elem, ms) ==
    LET r1 == Assign(elem, "_cursor_timestamp_ms", IntV(ms))
        r2 == Assign(r1, "_cursor_timestamp", ms_to_iso(ms))
        r3 == Assign(r2, "raw_data", json_dumps(r2))
    IN [element |-> r3, record |-> r3]

\* enrich_record(element, timestamp_ms): the caller's mapping after the call,
\* and the record returned
enrich_record(elem, ms) ==
    LET r0 == elem                                        \* dict(element)
        r1 == Assign(r0, "_cursor_timestamp_ms", IntV(ms))
        r2 == Assign(r1, "_cursor_timestamp", ms_to_iso(ms))
        r3 == Assign(r2, "raw_data", json_dumps(elem))
    IN [element |-> elem, record |-> r3]

EnrichRecord ==
    /\ enriched = NoMapping
    /\ original' = enrich_record(original, enrich_ms).element
    /\ enriched' = enrich_record(original, enrich_ms).record
    /\ UNCHANGED <<enrich_ms, authVars, clientVars, extVars, queryVars, normVars, timeVars, pathVars, extractVars>>

(***************************************************************************)
(* The path of a request (client.py)                                       *)
(*                                                                         *)
(* A path is a sequence of pieces whose concatenation is the path string.  *)
(* No occurrence of "/derivatives" in the string lies across two pieces:   *)
(* the other pieces hold no "d", and only a piece's first character is "/".*)
(***************************************************************************)
BASE_URL == "https://futures.kraken.com"

Pieces == {"/derivatives", "/api", "/v3", "s"}

Paths == UNION {[1..n -> Pieces] : n \in 0..MaxPieces}

NoTarget == [built |-> FALSE, auth_path |-> <<>>, url |-> <<>>]

\* path.startswith("/derivatives")
StartsWithDerivatives(p) == p # <<>> /\ p[1] = "/derivatives"

\* path.replace("/derivatives", ""): every occurrence, left to right
RECURSIVE RemoveDerivatives(_)
RemoveDerivatives(p) ==
    IF p = <<>> THEN <<>>
    ELSE IF Head(p) = "/derivatives" THEN RemoveDerivatives(Tail(p))
    ELSE <<Head(p)>> \o RemoveDerivatives(Tail(p))

\* auth_path = path.replace("/derivatives", "") if path.startswith("/derivatives") else path
AuthPath(p) == IF StartsWithDerivatives(p) THEN RemoveDerivatives(p) ELSE p

\* url = f"{BASE_URL}{path}"
Url(p) == <<BASE_URL>> \o p

\* get(path, private=True) up to self.auth(auth_path, params)
BuildTarget ==
    /\ ~target.built
    /\ target' = [built |-> TRUE, auth_path |-> AuthPath(path), url |-> Url(path)]
    /\ UNCHANGED <<path, authVars, clientVars, extVars, queryVars, normVars, timeVars, extractVars, enrichVars>>

(***************************************************************************)
(* Specifications                                                          *)
(***************************************************************************)
\* one Signer used by NumThreads threads
InitAuth ==
    /\ clock = 0
    /\ counter \in SignerCounters
    /\ lock = 0
    /\ prevNonce = -1
    /\ lastNonce = -1
    /\ credentials = GoodCredentials
    /\ signer = BuiltSigner(GoodCredentials)
    /\ cfg = NoConfig
    /\ cpc = "idle"
    /\ attempt = 0
    /\ requestsSent = 0
    /\ sleeps = 0
    /\ throttles = 0
    /\ kinds = <<>>
    /\ lastResp = NoResponse
    /\ headers = NoHeaders
    /\ outcome = "none"
    /\ raised = {}
    /\ result = EmptyPayload
    /\ resource = "none"
    /\ auth = FALSE
    /\ start_timestamp = 0
    /\ state = EmptyState
    /\ loc = NoLocals
    /\ hist = NoHistory
    /\ params = NoParams
    /\ query_string = <<>>
    /\ payload = <<>>
    /\ qpc = QueryIdle
    /\ element = NoElement
    /\ record = NoRecord
    /\ input_ms = 0
    /\ raw = NoneV
    /\ coerced = NotCoerced
    /\ path = <<>>
    /\ target = NoTarget
    /\ doc = NoDoc
    /\ fields = <<>>
    /\ extracted = NotCoerced
    /\ original = NoMapping
    /\ enrich_ms = 0
    /\ enriched = NoMapping

NextAuth ==
    \/ Tick
    \/ \E t \in Threads : Acquire(t)
    \/ \E t \in Threads : NextNonce(t)

SpecAuth == InitAuth /\ [][NextAuth]_vars

\* a caller constructs a Signer from any credentials, and uses it if it exists
InitSigner ==
    /\ clock = 0
    /\ counter = -1
    /\ lock = 0
    /\ prevNonce = -1
    /\ lastNonce = -1
    /\ credentials \in Credentials
    /\ signer = NoSigner
    /\ cfg = NoConfig
    /\ cpc = "idle"
    /\ attempt = 0
    /\ requestsSent = 0
    /\ sleeps = 0
    /\ throttles = 0
    /\ kinds = <<>>
    /\ lastResp = NoResponse
    /\ headers = NoHeaders
    /\ outcome = "none"
    /\ raised = {}
    /\ result = EmptyPayload
    /\ resource = "none"
    /\ auth = FALSE
    /\ start_timestamp = 0
    /\ state = EmptyState
    /\ loc = NoLocals
    /\ hist = NoHistory
    /\ params = NoParams
    /\ query_string = <<>>
    /\ payload = <<>>
    /\ qpc = QueryIdle
    /\ element = NoElement
    /\ record = NoRecord
    /\ input_ms = 0
    /\ raw = NoneV
    /\ coerced = NotCoerced
    /\ path = <<>>
    /\ target = NoTarget
    /\ doc = NoDoc
    /\ fields = <<>>
    /\ extracted = NotCoerced
    /\ original = NoMapping
    /\ enrich_ms = 0
    /\ enriched = NoMapping

NextSigner ==
    \/ Construct
    \/ Tick
    \/ \E t \in Threads : Acquire(t)
    \/ \E t \in Threads : NextNonce(t)

SpecSigner == InitSigner /\ [][NextSigner]_vars

\* one call of get on a client of any configuration
InitClient ==
    /\ clock = 0
    /\ counter = 0
    /\ lock = 0
    /\ prevNonce = -1
    /\ lastNonce = -1
    /\ credentials = GoodCredentials
    /\ signer = BuiltSigner(GoodCredentials)
    /\ cfg \in Configs
    /\ cpc = "call"
    /\ attempt = 0
    /\ requestsSent = 0
    /\ sleeps = 0
    /\ throttles = 0
    /\ kinds = <<>>
    /\ lastResp = NoResponse
    /\ headers = NoHeaders
    /\ outcome = "none"
    /\ raised = {}
    /\ result = EmptyPayload
    /\ resource = "none"
    /\ auth = FALSE
    /\ start_timestamp = 0
    /\ state = EmptyState
    /\ loc = NoLocals
    /\ hist = NoHistory
    /\ params = NoParams
    /\ query_string = <<>>
    /\ payload = <<>>
    /\ qpc = QueryIdle
    /\ element = NoElement
    /\ record = NoRecord
    /\ input_ms = 0
    /\ raw = NoneV
    /\ coerced = NotCoerced
    /\ path = <<>>
    /\ target = NoTarget
    /\ doc = NoDoc
    /\ fields = <<>>
    /\ extracted = NotCoerced
    /\ original = NoMapping
    /\ enrich_ms = 0
    /\ enriched = NoMapping

NextClient ==
    \/ GetStart
    \/ \E r \in Responses : Attempt(r)

SpecClient == InitClient /\ [][NextClient]_vars

\* up to MaxRuns runs of one resource, with or without auth, over its
\* persisted cursor state, starting from the empty mapping
Init ==
    /\ clock = 0
    /\ counter = 0
    /\ lock = 0
    /\ prevNonce = -1
    /\ lastNonce = -1
    /\ credentials = GoodCredentials
    /\ signer = BuiltSigner(GoodCredentials)
    /\ cfg = NoConfig
    /\ cpc = "idle"
    /\ attempt = 0
    /\ requestsSent = 0
    /\ sleeps = 0
    /\ throttles = 0
    /\ kinds = <<>>
    /\ lastResp = NoResponse
    /\ headers = NoHeaders
    /\ outcome = "none"
    /\ raised = {}
    /\ result = EmptyPayload
    /\ resource \in Resources
    /\ auth \in BOOLEAN
    /\ start_timestamp \in StartChoices
    /\ state = EmptyState
    /\ loc = NoLocals
    /\ hist = NoHistory
    /\ params = NoParams
    /\ query_string = <<>>
    /\ payload = <<>>
    /\ qpc = QueryIdle
    /\ element = NoElement
    /\ record = NoRecord
    /\ input_ms = 0
    /\ raw = NoneV
    /\ coerced = NotCoerced
    /\ path = <<>>
    /\ target = NoTarget
    /\ doc = NoDoc
    /\ fields = <<>>
    /\ extracted = NotCoerced
    /\ original = NoMapping
    /\ enrich_ms = 0
    /\ enriched = NoMapping

Next ==
    \/ AuthFail
    \/ Seed
    \/ Stop
    \/ OPStart
    \/ OPRequest
    \/ \E r \in Ledger : OPRecord(r)
    \/ OPEnd
    \/ TkStart
    \/ TkRequest
    \/ \E r \in Ledger : TkRecord(r)
    \/ TkEnd
    \/ ExRequest
    \/ ExRecord
    \/ ExEndOfPage
    \/ PHRequest
    \/ PHRecord
    \/ PHEndOfPage
    \/ ALRequest
    \/ \E r \in Ledger : ALRecord(r)
    \/ \E tok \in Tokens \cup {""} : ALEndOfPage(tok)

Spec == Init /\ [][Next]_vars

\* one get: the URL's query string and the Signer's canonical query of the
\* same params, computed in either order
InitQuery ==
    /\ clock = 0
    /\ counter = 0
    /\ lock = 0
    /\ prevNonce = -1
    /\ lastNonce = -1
    /\ credentials = GoodCredentials
    /\ signer = BuiltSigner(GoodCredentials)
    /\ cfg = NoConfig
    /\ cpc = "idle"
    /\ attempt = 0
    /\ requestsSent = 0
    /\ sleeps = 0
    /\ throttles = 0
    /\ kinds = <<>>
    /\ lastResp = NoResponse
    /\ headers = NoHeaders
    /\ outcome = "none"
    /\ raised = {}
    /\ result = EmptyPayload
    /\ resource = "none"
    /\ auth = FALSE
    /\ start_timestamp = 0
    /\ state = EmptyState
    /\ loc = NoLocals
    /\ hist = NoHistory
    /\ params \in ParamMaps
    /\ query_string = <<>>
    /\ payload = <<>>
    /\ qpc = QueryIdle
    /\ element = NoElement
    /\ record = NoRecord
    /\ input_ms = 0
    /\ raw = NoneV
    /\ coerced = NotCoerced
    /\ path = <<>>
    /\ target = NoTarget
    /\ doc = NoDoc
    /\ fields = <<>>
    /\ extracted = NotCoerced
    /\ original = NoMapping
    /\ enrich_ms = 0
    /\ enriched = NoMapping

NextQuery ==
    \/ BuildQueryString
    \/ SignPayload

SpecQuery == InitQuery /\ [][NextQuery]_vars

\* one element of a position_history page goes through the loop body
InitNormalize ==
    /\ clock = 0
    /\ counter = 0
    /\ lock = 0
    /\ prevNonce = -1
    /\ lastNonce = -1
    /\ credentials = GoodCredentials
    /\ signer = BuiltSigner(GoodCredentials)
    /\ cfg = NoConfig
    /\ cpc = "idle"
    /\ attempt = 0
    /\ requestsSent = 0
    /\ sleeps = 0
    /\ throttles = 0
    /\ kinds = <<>>
    /\ lastResp = NoResponse
    /\ headers = NoHeaders
    /\ outcome = "none"
    /\ raised = {}
    /\ result = EmptyPayload
    /\ resource = "none"
    /\ auth = FALSE
    /\ start_timestamp = 0
    /\ state = EmptyState
    /\ loc = NoLocals
    /\ hist = NoHistory
    /\ params = NoParams
    /\ query_string = <<>>
    /\ payload = <<>>
    /\ qpc = QueryIdle
    /\ element \in Elements
    /\ record = NoRecord
    /\ input_ms = 0
    /\ raw = NoneV
    /\ coerced = NotCoerced
    /\ path = <<>>
    /\ target = NoTarget
    /\ doc = NoDoc
    /\ fields = <<>>
    /\ extracted = NotCoerced
    /\ original = NoMapping
    /\ enrich_ms = 0
    /\ enriched = NoMapping

NextNormalize == PHNormalize

SpecNormalize == InitNormalize /\ [][NextNormalize]_vars

\* a millisecond value goes through ms_to_iso and back through
\* coerce_timestamp_ms
InitTime ==
    /\ clock = 0
    /\ counter = 0
    /\ lock = 0
    /\ prevNonce = -1
    /\ lastNonce = -1
    /\ credentials = GoodCredentials
    /\ signer = BuiltSigner(GoodCredentials)
    /\ cfg = NoConfig
    /\ cpc = "idle"
    /\ attempt = 0
    /\ requestsSent = 0
    /\ sleeps = 0
    /\ throttles = 0
    /\ kinds = <<>>
    /\ lastResp = NoResponse
    /\ headers = NoHeaders
    /\ outcome = "none"
    /\ raised = {}
    /\ result = EmptyPayload
    /\ resource = "none"
    /\ auth = FALSE
    /\ start_timestamp = 0
    /\ state = EmptyState
    /\ loc = NoLocals
    /\ hist = NoHistory
    /\ params = NoParams
    /\ query_string = <<>>
    /\ payload = <<>>
    /\ qpc = QueryIdle
    /\ element = NoElement
    /\ record = NoRecord
    /\ input_ms \in 0..MaxMs
    /\ raw = NoneV
    /\ coerced = NotCoerced
    /\ path = <<>>
    /\ target = NoTarget
    /\ doc = NoDoc
    /\ fields = <<>>
    /\ extracted = NotCoerced
    /\ original = NoMapping
    /\ enrich_ms = 0
    /\ enriched = NoMapping

NextTime == MsToIso \/ GiveNumber \/ CoerceTimestamp

SpecTime == InitTime /\ [][NextTime]_vars

\* one private get, for every path
InitPath ==
    /\ clock = 0
    /\ counter = 0
    /\ lock = 0
    /\ prevNonce = -1
    /\ lastNonce = -1
    /\ credentials = GoodCredentials
    /\ signer = BuiltSigner(GoodCredentials)
    /\ cfg = NoConfig
    /\ cpc = "idle"
    /\ attempt = 0
    /\ requestsSent = 0
    /\ sleeps = 0
    /\ throttles = 0
    /\ kinds = <<>>
    /\ lastResp = NoResponse
    /\ headers = NoHeaders
    /\ outcome = "none"
    /\ raised = {}
    /\ result = EmptyPayload
    /\ resource = "none"
    /\ auth = FALSE
    /\ start_timestamp = 0
    /\ state = EmptyState
    /\ loc = NoLocals
    /\ hist = NoHistory
    /\ params = NoParams
    /\ query_string = <<>>
    /\ payload = <<>>
    /\ qpc = QueryIdle
    /\ element = NoElement
    /\ record = NoRecord
    /\ input_ms = 0
    /\ raw = NoneV
    /\ coerced = NotCoerced
    /\ path \in Paths
    /\ target = NoTarget
    /\ doc = NoDoc
    /\ fields = <<>>
    /\ extracted = NotCoerced
    /\ original = NoMapping
    /\ enrich_ms = 0
    /\ enriched = NoMapping

NextPath == BuildTarget

SpecPath == InitPath /\ [][NextPath]_vars

\* one call of extract_timestamp, for every record and field list
InitExtract ==
    /\ clock = 0
    /\ counter = 0
    /\ lock = 0
    /\ prevNonce = -1
    /\ lastNonce = -1
    /\ credentials = GoodCredentials
    /\ signer = BuiltSigner(GoodCredentials)
    /\ cfg = NoConfig
    /\ cpc = "idle"
    /\ attempt = 0
    /\ requestsSent = 0
    /\ sleeps = 0
    /\ throttles = 0
    /\ kinds = <<>>
    /\ lastResp = NoResponse
    /\ headers = NoHeaders
    /\ outcome = "none"
    /\ raised = {}
    /\ result = EmptyPayload
    /\ resource = "none"
    /\ auth = FALSE
    /\ start_timestamp = 0
    /\ state = EmptyState
    /\ loc = NoLocals
    /\ hist = NoHistory
    /\ params = NoParams
    /\ query_string = <<>>
    /\ payload = <<>>
    /\ qpc = QueryIdle
    /\ element = NoElement
    /\ record = NoRecord
    /\ input_ms = 0
    /\ raw = NoneV
    /\ coerced = NotCoerced
    /\ path = <<>>
    /\ target = NoTarget
    /\ doc \in Docs
    /\ fields \in FieldLists
    /\ extracted = NotCoerced
    /\ original = NoMapping
    /\ enrich_ms = 0
    /\ enriched = NoMapping

NextExtract == ExtractTimestamp

SpecExtract == InitExtract /\ [][NextExtract]_vars

\* one call of enrich_record, for every exchange record
InitEnrich ==
    /\ clock = 0
    /\ counter = 0
    /\ lock = 0
    /\ prevNonce = -1
    /\ lastNonce = -1
    /\ credentials = GoodCredentials
    /\ signer = BuiltSigner(GoodCredentials)
    /\ cfg = NoConfig
    /\ cpc = "idle"
    /\ attempt = 0
    /\ requestsSent = 0
    /\ sleeps = 0
    /\ throttles = 0
    /\ kinds = <<>>
    /\ lastResp = NoResponse
    /\ headers = NoHeaders
    /\ outcome = "none"
    /\ raised = {}
    /\ result = EmptyPayload
    /\ resource = "none"
    /\ auth = FALSE
    /\ start_timestamp = 0
    /\ state = EmptyState
    /\ loc = NoLocals
    /\ hist = NoHistory
    /\ params = NoParams
    /\ query_string = <<>>
    /\ payload = <<>>
    /\ qpc = QueryIdle
    /\ element = NoElement
    /\ record = NoRecord
    /\ input_ms = 0
    /\ raw = NoneV
    /\ coerced = NotCoerced
    /\ path = <<>>
    /\ target = NoTarget
    /\ doc = NoDoc
    /\ fields = <<>>
    /\ extracted = NotCoerced
    /\ original \in ApiRecords
    /\ enrich_ms \in {1000, 1001}
    /\ enriched = NoMapping

NextEnrich == EnrichRecord

SpecEnrich == InitEnrich /\ [][NextEnrich]_vars

\* one account_log run of any length, from the empty state, against an
\* exchange that never returns a continuation token
InitLive ==
    /\ clock = 0
    /\ counter = 0
    /\ lock = 0
    /\ prevNonce = -1
    /\ lastNonce = -1
    /\ credentials = GoodCredentials
    /\ signer = BuiltSigner(GoodCredentials)
    /\ cfg = NoConfig
    /\ cpc = "idle"
    /\ attempt = 0
    /\ requestsSent = 0
    /\ sleeps = 0
    /\ throttles = 0
    /\ kinds = <<>>
    /\ lastResp = NoResponse
    /\ headers = NoHeaders
    /\ outcome = "none"
    /\ raised = {}
    /\ result = EmptyPayload
    /\ resource = "account_log"
    /\ auth = TRUE
    /\ start_timestamp \in StartChoices
    /\ state = EmptyState
    /\ loc = NoLocals
    /\ hist = NoHistory
    /\ params = NoParams
    /\ query_string = <<>>
    /\ payload = <<>>
    /\ qpc = QueryIdle
    /\ element = NoElement
    /\ record = NoRecord
    /\ input_ms = 0
    /\ raw = NoneV
    /\ coerced = NotCoerced
    /\ path = <<>>
    /\ target = NoTarget
    /\ doc = NoDoc
    /\ fields = <<>>
    /\ extracted = NotCoerced
    /\ original = NoMapping
    /\ enrich_ms = 0
    /\ enriched = NoMapping

NextLive ==
    \/ LiveSeed
    \/ LiveRequest
    \/ \E r \in Ledger : LiveRecord(r)
    \/ LiveEndOfPage

\* the consumer keeps pulling and the exchange answers every request: the run
\* never stops short of its end
SpecLive == InitLive /\ [][NextLive]_vars /\ WF_vars(NextLive)

(***************************************************************************)
(* Claims about KrakenFuturesAuth (checked under SpecAuth)                 *)
(***************************************************************************)
\* C1: for one Signer instance the nonces returned by successive calls are
\* strictly increasing as integers, for any number of calls, by any thread,
\* also within one millisecond.
C1_NoncesStrictlyIncrease ==
    prevNonce >= 0 => lastNonce > prevNonce

\* C27: constructing a Signer with an empty key or an empty secret fails with
\* an argument error, and no Signer exists afterwards: no credential is
\* stored, no counter is set, and no nonce is ever issued.
C27_EmptyCredentialsRejected ==
    (signer.status # "none"
       /\ (credentials.api_key = "" \/ credentials.api_secret = "")) =>
        /\ signer.status = "failed"
        /\ signer.raised \in {"api_key must be provided",
                              "api_secret must be provided"}
        /\ signer.api_key = ""
        /\ counter = -1
        /\ lock = 0
        /\ lastNonce = -1

C27_Witness ==
    /\ signer.status = "failed"
    /\ credentials.api_key = "key"
    /\ credentials.api_secret = ""
    /\ signer.raised = "api_secret must be provided"
    /\ clock = 1

(***************************************************************************)
(* Claims about the extractors (checked under Spec)                        *)
(***************************************************************************)
\* the largest timestamp among the records yielded in this run, 0 if none
MaxYielded ==
    IF hist.yielded = {} THEN 0 ELSE Max({r.ts : r \in hist.yielded})

\* C2: account_log resume safety.  If a run stopped between two pages after
\* the cursor state (last_timestamp and the fallback "before" boundary) was
\* written, then a later run seeded from that state, served by an exchange
\* that honours the since / before bounds, has yielded by its end every
\* record older than the boundary that the stopped run had not yielded.
C2_ResumeReachesOwedRecords ==
    (resource = "account_log" /\ loc.pc = "done" /\ hist.honest)
        => hist.owed \subseteq hist.yielded

\* C3: in every extractor the cursor state of a page is written only after
\* all records of the page were yielded: while a page is being yielded the
\* persisted state is the one the request went out with, and at every point
\* the persisted last_timestamp is at most the maximum of the seed value and
\* the timestamps of the records already yielded.
C3_StateWrittenAfterYield ==
    /\ NumOf(state.last_timestamp) <= Max({loc.since, MaxYielded})
    /\ loc.pc = "page" => state = hist.atRequest

C3_Witness ==
    /\ resource = "account_log"
    /\ loc.pc = "page"
    /\ loc.nlogs = 2
    /\ MaxYielded = 2
    /\ state.last_timestamp = Absent

\* C4: continuation-token pagination (executions, position_history).  A
\* request after the first is issued only after a page that returned records
\* and a token, and carries that token; the first page without a token (or
\* without records) ends the run, after exactly as many requests as pages,
\* with the persisted continuation_token null.
C4_TokenPagination ==
    resource \in {"executions", "position_history"} =>
        /\ (loc.pc = "page" /\ hist.nreq > 1) =>
              /\ hist.req.token = hist.lastTok
              /\ hist.lastTok # ""
              /\ hist.lastHadRecords
        /\ (hist.nresp >= 1 /\ hist.lastTok # "" /\ hist.lastHadRecords) =>
              loc.pc \in {"request", "page", "stopped", "failed"}
        /\ (hist.nresp >= 1 /\ ~(hist.lastTok # "" /\ hist.lastHadRecords)) =>
              /\ loc.pc = "done"
              /\ hist.nreq = hist.nresp
              /\ state.continuation_token = "none"

C4_Witness ==
    /\ resource = "position_history"
    /\ loc.pc = "done"
    /\ loc.why = "no_token"
    /\ hist.nreq = 3
    /\ hist.req.token = "t1"
    /\ state.continuation_token = "none"

\* C5: when an extractor run terminates, the persisted last_timestamp is the
\* maximum timestamp over the seed value and all records yielded in the run,
\* whichever branch ended it.
C5_FinalWatermarkIsMax ==
    loc.pc = "done" =>
        NumOf(state.last_timestamp) = Max({loc.since, MaxYielded})

\* C6: account_log boundary dedupe across one fallback transition.  After a
\* full page without token whose earliest yielded timestamp is T, the next
\* page is fetched with before = T; on it a record yielded at T on the page
\* before is not yielded again, a record at T that was not is yielded, and the
\* dedupe skips nothing else: a record that has a timestamp and passes the
\* resume filter is skipped only if it was yielded at T on the page before.
C6_BoundaryDedupe ==
    (resource = "account_log" /\ loc.pc = "page" /\ hist.prevBoundary # {}) =>
        LET T == (CHOOSE b \in hist.prevBoundary : TRUE).ts
        IN /\ hist.req.before = T
           /\ \A r \in loc.served :
                 /\ r \in hist.prevBoundary => r \notin loc.timestamps
                 /\ (r.ts = T /\ r \notin hist.prevBoundary) => r \in loc.timestamps
                 /\ (r \notin loc.timestamps /\ r.ts # 0
                        /\ ~(loc.isv # 0 /\ r.ts <= loc.isv))
                       => r \in hist.prevBoundary

C6_Witness ==
    /\ resource = "account_log"
    /\ loc.pc = "page"
    /\ {r.uid : r \in hist.prevBoundary} = {"A", "B"}
    /\ {r.uid : r \in loc.served} = {"A", "C"}
    /\ {r.uid : r \in loc.timestamps} = {"C"}
    /\ hist.yielded = {r \in Ledger : r.uid \in {"A", "B", "C"}}

\* C7: account_log infinite-loop guard.  When 3 consecutive fallback pages
\* resolve to the same earliest timestamp T the run has terminated at the
\* third of them with the persisted "before" cleared, and no more than 3
\* consecutive fallback requests are issued with the same before.
C7_LoopGuard ==
    resource = "account_log" =>
        /\ hist.streak <= 3
        /\ LET n == Len(hist.resolved)
           IN (n >= 3 /\ hist.resolved[n] = hist.resolved[n - 1]
                      /\ hist.resolved[n] = hist.resolved[n - 2]) =>
                 /\ loc.pc = "done"
                 /\ loc.why = "loop_guard"
                 /\ state.before = NoneV

C7_Witness ==
    /\ loc.why = "loop_guard"
    /\ hist.resolved = <<2, 2, 2>>
    /\ hist.nreq = 3
    /\ hist.streak = 2
    /\ state.before = NoneV

\* C11: executions run with auth = None and the default client built from it
\* does not fail with a configuration error: its first client call goes out
\* to the network.
C11_ExecutionsToleratesNoAuth ==
    (resource = "executions" /\ ~auth) =>
        /\ loc.pc # "failed"
        /\ hist.nreq >= 1 => hist.sent >= 1

\* C12: account_log, position_history and open_positions run without auth fail
\* with the configuration error before any call to the client and without
\* writing any cursor state.
C12_AuthRequiredFailsFirst ==
    (resource \in {"account_log", "position_history", "open_positions"}
        /\ ~auth /\ hist.run >= 1) =>
        /\ loc.pc = "failed"
        /\ loc.why = "auth_required"
        /\ hist.nreq = 0
        /\ hist.sent = 0
        /\ hist.yielded = {}
        /\ state = hist.seed
        /\ state = EmptyState

C12_Witness ==
    /\ resource = "open_positions"
    /\ ~auth
    /\ loc.pc = "failed"
    /\ hist.run = 2
    /\ hist.nreq = 0

\* C13: the persisted last_timestamp is a monotonic watermark: over the pages
\* of a run and over runs seeded from the persisted state, its numeric value
\* never decreases once set.
C13_WatermarkNeverDecreases ==
    [][NumOf(state'.last_timestamp) >= NumOf(state.last_timestamp)]_vars

\* C14: whenever an account_log run terminates (empty page, start timestamp
\* reached, loop guard or partial page) the transient cursor fields of the
\* persisted state are cleared: continuation_token is null, before is null
\* and boundary_booking_uids is empty.
C14_TransientFieldsCleared ==
    (resource = "account_log" /\ loc.pc = "done") =>
        /\ state.continuation_token = "none"
        /\ state.before = NoneV
        /\ state.boundary_booking_uids = {}

\* C15: account_log resume filter.  A run that starts with a persisted
\* last_timestamp W and no persisted continuation token yields no record with
\* timestamp <= W; a run that starts with a persisted continuation token, or
\* without a persisted watermark (at most the caller's start timestamp), does
\* not apply the filter: every record of a page that has a timestamp and is
\* not a recorded boundary duplicate is yielded, whatever its timestamp.
C15_ResumeFilter ==
    (resource = "account_log" /\ loc.pc \notin {"seed", "failed"}) =>
        LET W == NumOf(hist.seed.last_timestamp)
            tok == TokOf(hist.seed.continuation_token)
        IN /\ (W # 0 /\ tok = "") => \A r \in hist.yielded : r.ts > W
           /\ (loc.pc = "page"
                 /\ (tok # "" \/ hist.seed.last_timestamp.t \in {"absent", "none"})) =>
                 \A r \in loc.served :
                    (r.ts # 0 /\ ~(r.ts = loc.lbt /\ r.uid \in loc.boundary))
                        => r \in loc.timestamps

C15_Witness ==
    /\ resource = "account_log"
    /\ hist.seed.last_timestamp = StrV(1)
    /\ hist.seed.continuation_token = "none"
    /\ loc.pc = "page"
    /\ {r.uid : r \in loc.served} = {"A", "D"}
    /\ {r.uid : r \in hist.yielded} = {"A"}

\* C16: account_log fallback pagination.  The first request of a run whose
\* seed state holds no "before" (a fresh run in particular) carries no before;
\* a request that follows a full page (len >= page_size) without continuation
\* token carries before = the earliest timestamp among the records yielded
\* from that page, and the persisted "before" holds the same value.
C16_FallbackUsesEarliest ==
    [][(resource = "account_log" /\ loc.pc = "request" /\ loc'.pc = "page") =>
          /\ (hist.nreq = 0 /\ ~Truthy(hist.seed.before)) => hist'.req.before = 0
          /\ (hist.nreq > 0 /\ loc.nlogs >= PageSize /\ hist.lastTok = "") =>
                /\ loc.timestamps # {}
                /\ \E r \in loc.timestamps :
                      /\ \A x \in loc.timestamps : r.ts <= x.ts
                      /\ hist'.req.before = r.ts
                      /\ state.before = StrV(r.ts)]_vars

C16_Witness ==
    /\ resource = "account_log"
    /\ hist.seed = EmptyState
    /\ loc.pc = "page"
    /\ hist.nreq = 2
    /\ hist.lastTok = ""
    /\ hist.req.before = 1
    /\ state.before = StrV(1)
    /\ {r.uid : r \in hist.yielded} = {"A", "D"}

\* C22: a record with no usable timestamp is skipped by the incremental
\* extractors: the pass of the loop over it yields nothing, leaves the
\* emitted-row count and the running maximum timestamp as they were, and
\* leaves the persisted watermark as it was.
C22_SkipsRecordsWithoutTimestamp ==
    [][\A r \in Ledger :
         (resource \in Incremental /\ r.ts = 0
            /\ r \notin loc.served /\ r \in loc'.served) =>
            /\ hist'.yielded = hist.yielded
            /\ loc'.emitted = loc.emitted
            /\ loc'.max_seen = loc.max_seen
            /\ state'.last_timestamp = state.last_timestamp]_vars

C22_Witness ==
    /\ resource \in Incremental
    /\ loc.pc = "page"
    /\ \E r \in loc.served : r.ts = 0
    /\ loc.nlogs = 2
    /\ loc.emitted = 1
    /\ loc.max_seen = 2

\* C23: the extractors propagate client errors without local recovery: when
\* the client call for page n fails, the run fails at that call, the persisted
\* cursor state is what it was after page n-1 was processed (the state the
\* call went out with), nothing is yielded by the failing step, and the failed
\* run takes no further step.
C23_ClientErrorsPropagate ==
    [][/\ (loc.pc = "request" /\ loc'.pc = "failed") =>
            /\ loc'.why \in {"client_error", "config_error"}
            /\ hist'.nreq = hist.nreq + 1
            /\ state' = state
            /\ state' = hist'.atRequest
            /\ hist'.yielded = hist.yielded
       /\ loc.pc = "failed" => hist'.run = hist.run + 1]_vars

C23_Witness ==
    /\ loc.pc = "failed"
    /\ loc.why = "client_error"
    /\ hist.nreq = 2
    /\ hist.yielded # {}
    /\ state.continuation_token = "t1"

\* C24: when the first response of an incremental extractor is empty (a
\* permission-denied payload softened to the empty payload included), the run
\* yields no record, issues exactly one request, sets continuation_token to
\* null, and leaves last_timestamp unset if there was no seed, or equal to the
\* seed if there was one.
C24_FirstResponseEmpty ==
    (resource \in Incremental /\ loc.pc = "done" /\ hist.nresp = 1
       /\ ~hist.lastHadRecords) =>
        LET seed == IF Truthy(hist.seed.last_timestamp)
                    THEN NumOf(hist.seed.last_timestamp) ELSE start_timestamp
        IN /\ hist.yielded = {}
           /\ hist.nreq = 1
           /\ state.continuation_token = "none"
           /\ IF seed = 0
              THEN state.last_timestamp \in {Absent, NoneV}
              ELSE /\ state.last_timestamp.t \in {"int", "str"}
                   /\ NumOf(state.last_timestamp) = seed

C24_Witness ==
    /\ resource = "executions"
    /\ loc.pc = "done"
    /\ hist.run = 2
    /\ hist.nresp = 1
    /\ ~hist.lastHadRecords
    /\ hist.seed.last_timestamp = StrV(2)
    /\ state.last_timestamp = IntV(2)

\* C26: the tickers extractor issues exactly one request, with private = false
\* (the Signer is not invoked and the request carries no auth headers), yields
\* one record per returned ticker with raw_data added, and reads or writes no
\* cursor state.
C26_TickersPublicSnapshot ==
    resource = "tickers" =>
        /\ state = EmptyState
        /\ hist.signed = 0
        /\ hist.nreq <= 1
        /\ loc.why # "config_error"
        /\ loc.pc \in {"page", "done"} => (hist.nreq = 1 /\ hist.sent = 1)
        /\ Cardinality(hist.rows) = loc.nlogs
        /\ loc.emitted = loc.nlogs
        /\ {[uid |-> row.uid, ts |-> row.ts] : row \in hist.rows} = loc.served
        /\ \A row \in hist.rows :
              row.raw_data = [uid |-> row.uid, ts |-> row.ts]

C26_Witness ==
    /\ resource = "tickers"
    /\ loc.pc = "done"
    /\ hist.nreq = 1
    /\ loc.nlogs = 2
    /\ \E row \in hist.rows : row.ts = 0

\* C28: within one account_log run that paginates by the "before" fallback,
\* against a server that honours the inclusive before bound, no booking_uid is
\* yielded more than once, also when the same boundary timestamp recurs on
\* more than two consecutive pages.
C28_NoDuplicateInRun ==
    (resource = "account_log" /\ hist.honest) => ~hist.repeated

\* C30: account_log ends a run through the "pagination complete - last page
\* was partial" branch only when the last page held fewer than page_size
\* records.
C30_PartialBranchOnlyAfterPartialPage ==
    (resource = "account_log" /\ loc.pc = "done" /\ loc.why = "partial") =>
        loc.nlogs < PageSize

\* C37: in a run of an incremental resource, since is the persisted
\* last_timestamp when the state the run started from holds one, whatever
\* start timestamp the caller gave; otherwise it is the caller's start
\* timestamp, absent when none was given; and every request of the run is
\* made with that value.
C37_SinceIsSeededOnce ==
    (resource \in Incremental /\ loc.pc # "seed" /\ loc.why # "auth_required") =>
        LET persisted == hist.seed.last_timestamp
            expected == IF persisted.t \in {"int", "str"} THEN persisted.v
                        ELSE start_timestamp
        IN /\ loc.since = expected
           /\ hist.nreq >= 1 => hist.req.since = expected

\* the second request of a run that resumed from a watermark other than the
\* caller's start timestamp
C37_Witness ==
    /\ resource \in Incremental
    /\ hist.seed.last_timestamp.t = "str"
    /\ start_timestamp # 0
    /\ start_timestamp # hist.seed.last_timestamp.v
    /\ hist.nreq = 2
    /\ hist.req.since = hist.seed.last_timestamp.v

C38_HasToken(st) == st.continuation_token \notin {"absent", "none"}

C38_HasBefore(st) == st.before \notin {Absent, NoneV}

\* C38: the persisted account_log state never holds a continuation_token and
\* a before together: a write that sets one of them leaves the other null,
\* after any sequence of pages from the empty state.
C38_TokenAndBeforeExclusive ==
    [][resource = "account_log" =>
          /\ ~(C38_HasToken(state') /\ C38_HasBefore(state'))
          /\ (C38_HasToken(state') /\ state'.continuation_token # state.continuation_token)
                => state'.before = NoneV
          /\ (C38_HasBefore(state') /\ state'.before # state.before)
                => state'.continuation_token = "none"]_vars

\* a token arrived while "before" pagination was under way
C38_Witness ==
    /\ resource = "account_log"
    /\ C38_HasBefore(hist.atRequest)
    /\ hist.nresp >= 2
    /\ C38_HasToken(state)
    /\ state.before = NoneV

\* C39: no account_log request carries a before parameter and a
\* continuation_token parameter together, whatever the responses were.
C39_NeverBeforeAndToken ==
    resource = "account_log" => ~(hist.req.before # 0 /\ hist.req.token # "")

\* the step that ends a non-empty account_log page
C31_PageEnds ==
    /\ resource = "account_log"
    /\ loc.pc = "page"
    /\ loc.nlogs > 0
    /\ hist'.nresp = hist.nresp + 1

\* the token branch: the token is kept for the next request, boundary tracking
\* and the loop-detection history are reset
C31_TokenBranch ==
    /\ loc'.pc = "request"
    /\ loc'.token = hist'.lastTok
    /\ loc'.lbt = 0
    /\ loc'.boundary = {}
    /\ loc'.seen = <<>>
    /\ state'.continuation_token = hist'.lastTok
    /\ state'.boundary_booking_uids = {}

C31_FallsBack ==
    /\ loc'.pc = "request"
    /\ loc'.token = ""
    /\ Truthy(loc'.before)

\* a request that follows a page with a continuation token carries that token
C31_RequestCarriesToken ==
    (/\ resource = "account_log"
     /\ loc.pc = "request"
     /\ hist'.nreq = hist.nreq + 1
     /\ hist.nresp >= 1
     /\ hist.lastTok # "") => hist'.req.token = hist.lastTok

\* the earliest timestamps of this and the two fallback pages before it are
\* one and the same
C31_ThirdSameBoundary ==
    LET r == Append(hist.resolved, Earliest(loc.timestamps))
        n == Len(r)
    IN n >= 3 /\ r[n] = r[n - 1] /\ r[n] = r[n - 2]

\* C31 as stated: after a non-empty account_log page, a continuation token
\* means the token branch whatever the page size; otherwise a full page means
\* the run falls back to "before" pagination; otherwise the run terminates.
C31_NextCursorDecision ==
    [][/\ C31_RequestCarriesToken
       /\ C31_PageEnds =>
             IF hist'.lastTok # "" THEN C31_TokenBranch
             ELSE IF loc.nlogs >= PageSize THEN C31_FallsBack
             ELSE loc'.pc = "done"]_vars

\* C31 as amended: after a non-empty account_log page, a continuation token
\* means the token branch whatever the page size; otherwise the run terminates
\* when since is set and the earliest yielded timestamp of the page is at or
\* below it; otherwise a full page that yielded a record falls back to
\* "before" pagination unless its earliest timestamp is the third equal one in
\* a row; otherwise the run terminates.
C31_NextCursorDecisionAmended ==
    [][/\ C31_RequestCarriesToken
       /\ C31_PageEnds =>
             IF hist'.lastTok # "" THEN C31_TokenBranch
             ELSE IF /\ loc.since # 0
                     /\ loc.timestamps # {}
                     /\ Earliest(loc.timestamps) <= loc.since
             THEN loc'.pc = "done"
             ELSE IF /\ loc.nlogs >= PageSize
                     /\ loc.timestamps # {}
                     /\ ~C31_ThirdSameBoundary
             THEN C31_FallsBack
             ELSE loc'.pc = "done"]_vars

\* a page shorter than page_size arrived with a token, and the run goes on
\* with that token
C31_Witness ==
    /\ resource = "account_log"
    /\ loc.pc = "request"
    /\ loc.nlogs > 0
    /\ loc.nlogs < PageSize
    /\ hist.lastTok # ""
    /\ loc.token = hist.lastTok

(***************************************************************************)
(* Claims about KrakenFuturesClient.get (checked under SpecClient)         *)
(***************************************************************************)
C8_TransientKinds == {"http429", "http5xx", "transport", "badjson", "null"}

C8_AllTransient ==
    \A i \in 1..Len(kinds) : kinds[i] \in C8_TransientKinds

\* C8: when every attempt fails with a transient error (HTTP 429, HTTP 5xx,
\* transport error, null or undecodable payload), get sends exactly
\* max_retries + 1 requests and then fails with the terminal fetch error; it
\* does not fail earlier and never sends more.
C8_RetriesExhausted ==
    /\ requestsSent <= cfg.max_retries + 1
    /\ requestsSent = Len(kinds)
    /\ (C8_AllTransient /\ Len(kinds) > 0) =>
          IF Len(kinds) = cfg.max_retries + 1
          THEN cpc = "done" /\ outcome = "fetch_error"
          ELSE cpc = "attempt" /\ outcome = "none"
    /\ outcome = "fetch_error" => requestsSent = cfg.max_retries + 1

C8_Witness ==
    /\ cfg.max_retries = 2
    /\ kinds = <<"http5xx", "http429", "null">>
    /\ outcome = "fetch_error"
    /\ requestsSent = 3

\* the text of the exchange's error message in a payload with an error marker
C9_ErrorTexts(p) ==
    IF p.result \in {"error", "ERROR"}
    THEN IF p.error # "absent" THEN {p.error} ELSE {p.rest}
    ELSE IF p.success = "false" THEN {p.error, p.rest} ELSE {}

C9_PermissionTexts ==
    {"permission_denied", "Permission Denied", "insufficient permission"}

C9_IsPermissionPayload(r) ==
    /\ r.kind = "json"
    /\ C9_ErrorTexts(r.payload) \cap C9_PermissionTexts # {}

\* C9: a 200 response whose payload carries an exchange error marker and whose
\* error message contains "permission" in any letter case ends the get at
\* once: it returns the empty payload, raises nothing, and sends no request
\* after that response (exactly one request when it is the first response).
C9_PermissionDeniedReturnsEmpty ==
    C9_IsPermissionPayload(lastResp) =>
        /\ cpc = "done"
        /\ outcome = "returned"
        /\ result = EmptyPayload
        /\ requestsSent = Len(kinds)
        /\ (attempt = 0 => requestsSent = 1)

C9_Witness ==
    /\ lastResp.kind = "json"
    /\ lastResp.payload.result = "ERROR"
    /\ lastResp.payload.error = "Permission Denied"
    /\ outcome = "returned"
    /\ requestsSent = 1

\* C10: get with private = true and no Signer configured fails with the
\* configuration error before any network call: no request is sent, no
\* backoff sleep is taken, nothing is signed.
C10_PrivateWithoutAuthFailsFirst ==
    (cfg.private /\ ~cfg.hasAuth /\ cpc # "call") =>
        /\ cpc = "done"
        /\ outcome = "config_error"
        /\ requestsSent = 0
        /\ sleeps = 0
        /\ headers = NoHeaders
        /\ counter = 0

C10_Witness ==
    /\ cfg.private
    /\ ~cfg.hasAuth
    /\ cfg.max_retries = 2
    /\ outcome = "config_error"
    /\ requestsSent = 0

\* the payload carries an exchange error marker: a string result equal to
\* "error" in any letter case, or the boolean success = false
C17_HasErrorMarker(p) == p.result \in {"error", "ERROR"} \/ p.success = "false"

\* C17: a 200 response whose payload has result = "error" (any letter case)
\* or success = false, and whose message does not contain "permission", makes
\* get fail with the API error carrying the exchange's error message; the
\* failure surfaces after that request, which is not retried (no further
\* request, no backoff sleep for it).
C17_ApiErrorRaisedNotRetried ==
    (lastResp.kind = "json"
        /\ C17_HasErrorMarker(lastResp.payload)
        /\ C9_ErrorTexts(lastResp.payload) \cap C9_PermissionTexts = {}) =>
        /\ cpc = "done"
        /\ outcome = "api_error"
        /\ "Kraken Futures API error" \in raised
        /\ lastResp.payload.error # "absent" => lastResp.payload.error \in raised
        /\ requestsSent = Len(kinds)
        /\ requestsSent = attempt + 1
        /\ sleeps = attempt

C17_Witness ==
    /\ lastResp.kind = "json"
    /\ lastResp.payload.result = "absent"
    /\ lastResp.payload.success = "false"
    /\ lastResp.payload.error = "invalid"
    /\ outcome = "api_error"
    /\ requestsSent = 1
    /\ cfg.max_retries = 2

\* C18: recovery.  If attempts 0..k-1 fail with transient errors and attempt
\* k <= max_retries succeeds, get returns the payload of attempt k after
\* exactly k + 1 requests and exactly k backoff sleeps, and sends no request
\* after the first success.
C18_RecoversAfterTransientErrors ==
    (lastResp.kind = "json" /\ ~C17_HasErrorMarker(lastResp.payload)) =>
        /\ cpc = "done"
        /\ outcome = "returned"
        /\ result = lastResp.payload
        /\ attempt <= cfg.max_retries
        /\ Len(kinds) = attempt + 1
        /\ \A i \in 1..attempt : kinds[i] \in C8_TransientKinds \cup {"http4xx"}
        /\ requestsSent = attempt + 1
        /\ sleeps = attempt

C18_Witness ==
    /\ cfg.max_retries = 2
    /\ kinds = <<"http429", "http5xx", "json">>
    /\ outcome = "returned"
    /\ result = lastResp.payload
    /\ result.rest = "insufficient permission"
    /\ requestsSent = 3
    /\ sleeps = 2

\* C33: with a positive min_request_interval, the self-throttle sleep happens
\* exactly once in a get that returns a genuine successful payload, after the
\* response that carried it, and never in a get that fails, that returns the
\* permission-denied empty payload, or that is still under way.
C33_ThrottleOncePerSuccess ==
    LET genuine == /\ cpc = "done"
                   /\ outcome = "returned"
                   /\ lastResp.kind = "json"
                   /\ ~C17_HasErrorMarker(lastResp.payload)
    IN /\ throttles = IF genuine /\ cfg.throttle THEN 1 ELSE 0
       /\ throttles > 0 => requestsSent >= 1 /\ result = lastResp.payload

C33_Witness ==
    /\ cfg.throttle
    /\ cpc = "done"
    /\ outcome = "returned"
    /\ kinds = <<"http5xx", "json">>
    /\ result = lastResp.payload
    /\ throttles = 1

\* C40: a private get invokes the Signer once, before the first attempt: the
\* nonce counter advances by one when the get starts and by nothing after,
\* and every attempt, retries included, carries the Nonce and signature
\* headers made then.
C40_SignedOncePerGet ==
    [][/\ (cpc = "call" /\ cpc' = "attempt" /\ cfg.private) =>
             /\ counter' = (counter + 1) % NONCE_MAX
             /\ headers'.signed
             /\ headers'.nonce = lastNonce'
             /\ requestsSent = 0
       /\ cpc = "attempt" =>
             /\ counter' = counter
             /\ lastNonce' = lastNonce
             /\ headers' = headers
             /\ cfg.private => headers.signed /\ headers.nonce = lastNonce]_vars

\* a private get that went through two retries
C40_Witness ==
    /\ cfg.private
    /\ cfg.hasAuth
    /\ cpc = "done"
    /\ requestsSent = 3
    /\ counter = 1
    /\ headers.signed
    /\ headers.nonce = lastNonce

(***************************************************************************)
(* Claims about the query string (checked under SpecQuery)                 *)
(***************************************************************************)
\* C19: for every params mapping the query string the client puts in the
\* request URL equals the canonical query string the Signer hashes.
C19_UrlQueryEqualsSignedQuery ==
    (qpc.built /\ qpc.signed) => query_string = payload

C19_Witness ==
    /\ qpc.built
    /\ qpc.signed
    /\ DOMAIN params = ParamKeys
    /\ params[<<"s", "i", "n", "c", "e">>] = QNone
    /\ params[<<"c", "o", "u", "n", "t">>] = QInt(500)
    /\ params[<<"b", "e", "f", "o", "r", "e">>] = QStr(<<"x", " ", "&">>)
    /\ payload = <<"b", "e", "f", "o", "r", "e", "=", "x", "+", "%", "2", "6",
                   "&", "c", "o", "u", "n", "t", "=", "5", "0", "0">>

C21_FlattenKeepsOuter ==
    (record.status = "yielded" /\ element.event = "PositionUpdate") =>
        /\ record.uid = element.uid
        /\ record.timestamp = element.timestamp
        /\ record.updateReason = element.body.updateReason
        /\ record.tradeable = element.body.tradeable

(***************************************************************************)
(* Claims about the timestamp conversions (checked under SpecTime)         *)
(***************************************************************************)
\* C25: coerce_timestamp_ms(ms_to_iso(t)) = t for every representable
\* millisecond value t.
C25_IsoRoundTrip ==
    (coerced # NotCoerced /\ raw.t = "iso") => coerced = IntV(input_ms)

C35_ValueAt(rec, parts) ==
    IF Len(parts) = 1 THEN rec[parts[1]]
    ELSE IF "timestamp" \in DOMAIN rec.event THEN rec.event.timestamp
    ELSE Absent

\* the values that denote a timestamp, and the timestamp they denote
C35_Coercible(v) == v.t = "num"

C35_TimestampOf(v) ==
    IF BitsGreater(v.bits, Nat3(1, 0, 0)) THEN v
    ELSE NumV(MulCarry(v.bits, 0, 1000))

\* C35: extract_timestamp returns the coerced timestamp of the first path, in
\* list order, whose value is present and coercible; paths whose value is
\* absent or not coercible are passed over; the result is None only when no
\* path has a coercible value.
C35_FirstCoerciblePath ==
    extracted # NotCoerced =>
        LET hits == {i \in 1..Len(fields) :
                        C35_Coercible(C35_ValueAt(doc, fields[i]))}
        IN IF hits = {} THEN extracted = NoneV
           ELSE extracted = C35_TimestampOf(C35_ValueAt(doc, fields[Min(hits)]))

(***************************************************************************)
(* Claims about enrich_record (checked under SpecEnrich)                   *)
(***************************************************************************)
C36_Added == {"_cursor_timestamp_ms", "_cursor_timestamp", "raw_data"}

\* what the returned record holds, given the mapping the call was made with
C36_Returned ==
    enriched # NoMapping =>
        /\ DOMAIN enriched = DOMAIN original \cup C36_Added
        /\ \A k \in DOMAIN original : enriched[k] = original[k]
        /\ enriched["_cursor_timestamp_ms"] = IntV(enrich_ms)
        /\ enriched["_cursor_timestamp"].t = "iso"
        /\ LET items == enriched["raw_data"].items
           IN /\ {items[i][1] : i \in 1..Len(items)} = DOMAIN original
              /\ \A i \in 1..Len(items) : items[i][2] = original[items[i][1]]
              /\ \A i, j \in 1..Len(items) : i # j => items[i][1] # items[j][1]

\* C36: enrich_record leaves the mapping it was given as it was, and returns
\* a record with every field of it, unchanged, plus _cursor_timestamp_ms,
\* _cursor_timestamp and raw_data; raw_data lists the fields of the mapping it
\* was given, and none of the three added ones.
C36_EnrichKeepsOriginal ==
    [][original' = original /\ C36_Returned']_vars

C36_Witness ==
    /\ DOMAIN original = {"uid", "timestamp", "booking_uid"}
    /\ DOMAIN enriched = DOMAIN original \cup C36_Added
    /\ Len(enriched["raw_data"].items) = 3

(***************************************************************************)
(* Claims about the signing path (checked under SpecPath)                  *)
(***************************************************************************)
\* C32: for a path that starts with "/derivatives" the Signer is given the
\* path without exactly that leading prefix and the URL keeps the full path;
\* for any other path the Signer is given the request path.
C32_SigningPathStripsPrefix ==
    target.built =>
        /\ target.url = <<BASE_URL>> \o path
        /\ target.auth_path =
               IF path # <<>> /\ path[1] = "/derivatives" THEN Tail(path) ELSE path

(***************************************************************************)
(* Claims about account_log over a run of any length (checked under        *)
(* SpecLive)                                                               *)
(***************************************************************************)
\* C29: an account_log run terminates after finitely many requests for every
\* sequence of responses without continuation token, whatever records the
\* pages contain.
C29_RunTerminates == <>(loc.pc = "done")

====
